---- MODULE Spec2Model ----
(***************************************************************************)
(* Model of the four drag-and-drop task loops of src/main.py               *)
(* (run_candle_box_task, run_katori_stand_task, run_hanger_wire_task,      *)
(* run_bridge_support_task) and of the DraggableItem class they share.     *)
(*                                                                         *)
(* A task run is a record (the locals of the task function plus the items  *)
(* it created).  Rectangles keep the pixel coordinates of the source; the  *)
(* pointer positions and clock readings the environment supplies are drawn *)
(* from small sets of such coordinates.                                    *)
(***************************************************************************)
EXTENDS Integers, Sequences, FiniteSets, TLC

VARIABLES run, twin, session, data_file, self

vars == <<run, twin, session, data_file, self>>

(***************************************************************************)
(* Bounds of the exploration.                                              *)
(***************************************************************************)
\* The environment delivers a left pointer-down only while action_count is
\* below this number.
MaxActions == 6
\* The environment releases the button over a place where no rule matches,
\* or presses the left button while an item is being dragged, only while
\* fewer than this many such drops and grabs have happened.
MaxSlips == 1

(***************************************************************************)
(* Shared constants (src/main.py:10-29).                                   *)
(***************************************************************************)
SCREEN_WIDTH == 1000
SCREEN_HEIGHT == 700
NUM_CONDITIONS == 2

None == "None"

Rect(x, y, w, h) == [x |-> x, y |-> y, w |-> w, h |-> h]

\* pygame.Rect attributes; the centre uses integer division.
right(r) == r.x + r.w
bottom(r) == r.y + r.h
centerx(r) == r.x + (r.w \div 2)
centery(r) == r.y + (r.h \div 2)
center(r) == <<centerx(r), centery(r)>>
topleft(r) == <<r.x, r.y>>

\* Rect.collidepoint: the right and bottom edges are outside.
collidepoint(r, p) ==
    /\ p[1] >= r.x /\ p[1] < r.x + r.w
    /\ p[2] >= r.y /\ p[2] < r.y + r.h

\* Rect.colliderect: the rectangles overlap in a region of positive area.
colliderect(a, b) ==
    /\ a.w # 0 /\ a.h # 0 /\ b.w # 0 /\ b.h # 0
    /\ a.x < b.x + b.w /\ a.y < b.y + b.h
    /\ a.x + a.w > b.x /\ a.y + a.h > b.y

\* Rect.contains(rect): b lies entirely inside a.
contains(a, b) ==
    /\ a.x <= b.x /\ a.y <= b.y
    /\ a.x + a.w >= b.x + b.w /\ a.y + a.h >= b.y + b.h
    /\ a.x + a.w > b.x /\ a.y + a.h > b.y

\* Assignments to rect attributes move the rectangle and keep its size.
set_topleft(r, p) == [r EXCEPT !.x = p[1], !.y = p[2]]
set_centerx(r, cx) == [r EXCEPT !.x = cx - (r.w \div 2)]
set_centery(r, cy) == [r EXCEPT !.y = cy - (r.h \div 2)]
set_center(r, c) == set_centery(set_centerx(r, c[1]), c[2])
set_bottom(r, b) == [r EXCEPT !.y = b - r.h]
set_midbottom(r, p) == set_bottom(set_centerx(r, p[1]), p[2])
set_midleft(r, p) == set_centery([r EXCEPT !.x = p[1]], p[2])
midtop(r) == <<centerx(r), r.y>>
midbottom(r) == <<centerx(r), bottom(r)>>

INVENTORY_RECT_GLOBAL == Rect(0, SCREEN_HEIGHT - 150, SCREEN_WIDTH, 150)
WORKSPACE_RECT_GLOBAL ==
    Rect(0, 0, SCREEN_WIDTH, SCREEN_HEIGHT - INVENTORY_RECT_GLOBAL.h)

\* Rect.inflate(dx, dy): grows around the centre (both amounts are even here).
inflate(r, dx, dy) == Rect(r.x - (dx \div 2), r.y - (dy \div 2), r.w + dx, r.h + dy)

(***************************************************************************)
(* class DraggableItem                                                     *)
(***************************************************************************)
\* __init__: the image is scaled to size, so the rectangle has that size.
\* Float coordinates (item_spacing * 1.5) are whole numbers in every call.
DraggableItem(image_filename, size, initial_pos, item_type) ==
    [ image_filename |-> image_filename,
      size           |-> size,
      item_type      |-> item_type,
      is_placed      |-> FALSE,
      is_transformed |-> FALSE,
      is_attached_to |-> None,
      state          |-> 0,
      rect           |-> Rect(initial_pos[1], initial_pos[2], size[1], size[2]),
      initial_pos    |-> initial_pos,
      current_pos    |-> initial_pos,
      dragging       |-> FALSE,
      offset         |-> <<0, 0>> ]

\* Events of the pygame queue.
MouseDown(button, pos) == [type |-> "MOUSEBUTTONDOWN", button |-> button, pos |-> pos]
MouseUp(button) == [type |-> "MOUSEBUTTONUP", button |-> button, pos |-> <<0, 0>>]
MouseMotion == [type |-> "MOUSEMOTION", button |-> 0, pos |-> <<0, 0>>]
Quit == [type |-> "QUIT", button |-> 0, pos |-> <<0, 0>>]

\* handle_event: the value returned.
handle_event_result(item, event) ==
    IF event.type = "MOUSEBUTTONDOWN"
    THEN event.button = 1 /\ collidepoint(item.rect, event.pos)
    ELSE IF event.type = "MOUSEBUTTONUP"
    THEN event.button = 1 /\ item.dragging
    ELSE FALSE

\* handle_event: the item afterwards.
\* handle_event that records no offset: the item's corner will jump to the
\* pointer.
handle_event_snapping(item, event) ==
    IF event.type = "MOUSEBUTTONDOWN"
    THEN IF event.button = 1 /\ collidepoint(item.rect, event.pos)
         THEN [item EXCEPT !.dragging = TRUE, !.offset = <<0, 0>>]
         ELSE item
    ELSE IF event.type = "MOUSEBUTTONUP"
    THEN IF event.button = 1 /\ item.dragging
         THEN [item EXCEPT !.dragging = FALSE]
         ELSE item
    ELSE item

handle_event(item, event) ==
    IF event.type = "MOUSEBUTTONDOWN"
    THEN IF event.button = 1 /\ collidepoint(item.rect, event.pos)
         THEN [item EXCEPT !.dragging = TRUE,
                           !.offset = <<item.rect.x - event.pos[1],
                                        item.rect.y - event.pos[2]>>]
         ELSE item
    ELSE IF event.type = "MOUSEBUTTONUP"
    THEN IF event.button = 1 /\ item.dragging
         THEN [item EXCEPT !.dragging = FALSE]
         ELSE item
    ELSE item

\* update without the test of dragging.
update_undragged(item, mouse_pos) ==
    LET r == set_topleft(item.rect, <<mouse_pos[1] + item.offset[1],
                                      mouse_pos[2] + item.offset[2]>>)
    IN [item EXCEPT !.rect = r, !.current_pos = topleft(r)]

update(item, mouse_pos) ==
    IF item.dragging
    THEN LET r == set_topleft(item.rect, <<mouse_pos[1] + item.offset[1],
                                           mouse_pos[2] + item.offset[2]>>)
         IN [item EXCEPT !.rect = r, !.current_pos = topleft(r)]
    ELSE item

\* reset_position that leaves the generic state as it is.
reset_position_keeping_state(item) ==
    [item EXCEPT !.rect = set_topleft(item.rect, item.initial_pos),
                 !.current_pos = item.initial_pos,
                 !.is_placed = FALSE]

reset_position(item) ==
    [item EXCEPT !.rect = set_topleft(item.rect, item.initial_pos),
                 !.current_pos = item.initial_pos,
                 !.is_placed = FALSE,
                 !.state = 0]

\* change_visual that builds the new rectangle at the old top-left corner.
change_visual_cornered(item, new_image_filename, new_size, new_item_type) ==
    [item EXCEPT !.image_filename = new_image_filename,
                 !.size = new_size,
                 !.item_type = IF new_item_type # None THEN new_item_type
                               ELSE item.item_type,
                 !.rect = Rect(item.rect.x, item.rect.y, new_size[1], new_size[2])]

\* change_visual: new image and size, optionally a new item_type; the new
\* rectangle is built around the old centre.
change_visual(item, new_image_filename, new_size, new_item_type) ==
    LET old_center == center(item.rect)
        fresh == Rect(0, 0, new_size[1], new_size[2])
    IN [item EXCEPT !.image_filename = new_image_filename,
                    !.size = new_size,
                    !.item_type = IF new_item_type # None THEN new_item_type
                                  ELSE item.item_type,
                    !.rect = set_center(fresh, old_center)]

(***************************************************************************)
(* Helpers on sequences.                                                   *)
(***************************************************************************)
Reverse(q) == [i \in 1..Len(q) |-> q[Len(q) + 1 - i]]
InSeq(x, q) == \E i \in 1..Len(q) : q[i] = x
Remove(q, x) == SelectSeq(q, LAMBDA y : y # x)

(***************************************************************************)
(* The action log.  A line of the log is                                   *)
(*   f"{elapsed_seconds:.2f}s - EVENT(arg)"  [ + " at {rect.center}" ]     *)
(* An entry keeps the line's event and argument; the formatted time and    *)
(* position are text that nothing in the task reads back.                  *)
(***************************************************************************)
Entry(event, arg) == [event |-> event, arg |-> arg]

\* log that overwrites the last line when the new line is of the same event.
log_superseding(s, event, arg) ==
    LET q == s.action_log
    IN IF Len(q) > 0 /\ q[Len(q)].event = event
       THEN [s EXCEPT !.action_log = [@ EXCEPT ![Len(q)] = Entry(event, arg)]]
       ELSE [s EXCEPT !.action_log = Append(@, Entry(event, arg))]

log(s, event, arg) ==
    [s EXCEPT !.action_log = Append(@, Entry(event, arg))]

(***************************************************************************)
(* Task setup: the state of a task function when it reaches its loop.      *)
(***************************************************************************)
Tasks == {"CandleBox", "KatoriStand", "HangerWire", "BridgeSupport"}

TIMEOUT_SECONDS(task) ==
    IF task \in {"CandleBox", "KatoriStand"} THEN 180 ELSE 240

TaskFlags(task) ==
    CASE task = "CandleBox" -> {"BoxOnWall", "BoxTacked"}
      [] task = "KatoriStand" -> {"KatoriInverted", "ObjectStable"}
      [] task = "HangerWire" -> {"HangerTransformed", "RingRetrieved"}
      [] task = "BridgeSupport" -> {"BookPlaced", "BridgePlaced", "CarCrossed"}

\* The locals every task function initialises before its loop.
TaskLocals(task, task_condition, items, draggables, sprites) ==
    [ task              |-> task,
      task_condition    |-> task_condition,
      items             |-> items,
      draggables        |-> draggables,
      sprites           |-> sprites,
      action_log        |-> <<>>,
      action_count      |-> 0,
      incorrect_drops   |-> 0,
      flags             |-> [f \in TaskFlags(task) |-> FALSE],
      running           |-> TRUE,
      currently_dragged |-> None,
      outcome           |-> "Timeout",
      wire_sprite       |-> None,
      ring_is_attached  |-> FALSE,
      car_on_bridge     |-> FALSE,
      elapsed_seconds   |-> 0,
      remaining_seconds |-> TIMEOUT_SECONDS(task),
      pc                |-> "frame" ]

inventory_rect == INVENTORY_RECT_GLOBAL
workspace_rect == WORKSPACE_RECT_GLOBAL

\* --- Candle Box ---
wall_area_rect == Rect((SCREEN_WIDTH \div 2) - 150, 50, 300, workspace_rect.h - 100)

candle_box_setup(task_condition) ==
    LET box_size == <<80, 80>>
        candle_size == <<30, 100>>
        tacks_size == <<40, 40>>
        inv_y == centery(inventory_rect) - (box_size[2] \div 2)
        item_spacing == 150
        candle_pos == <<centerx(inventory_rect) - ((item_spacing * 3) \div 2), inv_y>>
        box_pos == <<centerx(inventory_rect) - (box_size[1] \div 2), inv_y>>
        tacks_pos ==
            IF task_condition = 1
            THEN <<box_pos[1] + (box_size[1] \div 2) - (tacks_size[1] \div 2),
                   box_pos[2] + (box_size[2] \div 2) - (tacks_size[2] \div 2)>>
            ELSE <<centerx(inventory_rect) + ((item_spacing * 3) \div 2) - tacks_size[1],
                   inv_y + (box_size[2] \div 2) - (tacks_size[2] \div 2)>>
        box_image_file == IF task_condition = 1 THEN "box_with_tacks.png" ELSE "box.png"
        items == [ candle |-> DraggableItem("candle.png", candle_size, candle_pos, "candle"),
                   box    |-> DraggableItem(box_image_file, box_size, box_pos, "box"),
                   tacks  |-> DraggableItem("tacks.png", tacks_size, tacks_pos, "tacks") ]
    IN TaskLocals("CandleBox", task_condition, items,
                  <<"candle", "box", "tacks">>, <<"candle", "box", "tacks">>)


\* --- Katori Stand ---
table_rect == inflate(workspace_rect, -100, -150)

\* katori_stand_setup with the layout of condition 1 of Candle-Box carried
\* over: the object starts in the katori.
katori_stand_setup_nested(task_condition) ==
    LET katori_size == <<80, 50>>
        object_size == <<40, 40>>
        katori_pos == <<centerx(inventory_rect) - ((katori_size[1] * 3) \div 2),
                        centery(inventory_rect) - (katori_size[2] \div 2)>>
        object_pos == IF task_condition = 1
                      THEN <<katori_pos[1] + (katori_size[1] \div 2) - (object_size[1] \div 2),
                             katori_pos[2] + (katori_size[2] \div 2) - (object_size[2] \div 2)>>
                      ELSE <<centerx(inventory_rect) + (katori_size[1] \div 2),
                             centery(inventory_rect) - (object_size[2] \div 2)>>
        katori_img == IF task_condition = 1 THEN "katori_with_contents.png"
                      ELSE "katori.png"
        items == [ katori |-> DraggableItem(katori_img, katori_size, katori_pos, "katori"),
                   object |-> DraggableItem("diya.png", object_size, object_pos, "object") ]
    IN TaskLocals("KatoriStand", task_condition, items,
                  <<"katori", "object">>, <<"katori", "object">>)

katori_stand_setup(task_condition) ==
    LET katori_size == <<80, 50>>
        object_size == <<40, 40>>
        katori_pos == <<centerx(inventory_rect) - ((katori_size[1] * 3) \div 2),
                        centery(inventory_rect) - (katori_size[2] \div 2)>>
        object_pos == <<centerx(inventory_rect) + (katori_size[1] \div 2),
                        centery(inventory_rect) - (object_size[2] \div 2)>>
        katori_img == IF task_condition = 1 THEN "katori_with_contents.png"
                      ELSE "katori.png"
        items == [ katori |-> DraggableItem(katori_img, katori_size, katori_pos, "katori"),
                   object |-> DraggableItem("diya.png", object_size, object_pos, "object") ]
    IN TaskLocals("KatoriStand", task_condition, items,
                  <<"katori", "object">>, <<"katori", "object">>)

\* --- Hanger Wire ---
gap_area_rect ==
    Rect((SCREEN_WIDTH \div 2) - 40, (SCREEN_HEIGHT \div 2) - 100 - 50, 80, 200)
wire_size == <<10, 100>>

hanger_wire_setup(task_condition) ==
    LET hanger_size == <<120, 80>>
        ring_size == <<25, 25>>
        dist_size == <<50, 50>>
        ring_pos == <<centerx(gap_area_rect) - (ring_size[1] \div 2),
                      bottom(gap_area_rect) - ring_size[2] - 10>>
        hanger_pos == <<centerx(inventory_rect) - 150,
                        centery(inventory_rect) - (hanger_size[2] \div 2)>>
        hanger_img == IF task_condition = 1 THEN "hanger_with_shirt.png"
                      ELSE "hanger.png"
        items == [ ring   |-> DraggableItem("ring.png", ring_size, ring_pos, "ring"),
                   hanger |-> DraggableItem(hanger_img, hanger_size, hanger_pos, "hanger"),
                   cloth  |-> DraggableItem("distractor_cloth.png", dist_size,
                                            <<hanger_pos[1] + 180, hanger_pos[2] + 15>>,
                                            "cloth") ]
    IN TaskLocals("HangerWire", task_condition, items,
                  <<"hanger", "cloth">>, <<"ring", "hanger", "cloth">>)

\* --- Bridge Support ---
platform_y == centery(workspace_rect) + 50
platform_height == 150
platform_width == 300
gap_width == 150
left_platform_rect ==
    Rect(workspace_rect.x + 50, platform_y, platform_width, platform_height)
right_platform_rect ==
    Rect(right(left_platform_rect) + gap_width, platform_y, platform_width,
         platform_height)
gap_rect == Rect(right(left_platform_rect), platform_y, gap_width, platform_height)
ruler_size == <<gap_width + (platform_width \div 2), 20>>

bridge_support_setup(task_condition) ==
    LET book_size == <<100, 30>>
        car_size == <<50, 30>>
        book_pos == <<centerx(inventory_rect) - (book_size[1] * 2),
                      centery(inventory_rect) - (book_size[2] \div 2)>>
        ruler_pos == <<centerx(inventory_rect),
                       centery(inventory_rect) - (ruler_size[2] \div 2)>>
        car_pos == <<centerx(inventory_rect) + (book_size[1] * 2),
                     centery(inventory_rect) - (car_size[2] \div 2)>>
        book_img == IF task_condition = 1 THEN "book_open.png" ELSE "book_closed.png"
        items == [ book  |-> DraggableItem(book_img, book_size, book_pos, "book"),
                   ruler |-> DraggableItem("ruler.png", ruler_size, ruler_pos, "ruler"),
                   car   |-> DraggableItem("toy_car.png", car_size, car_pos, "car") ]
    IN TaskLocals("BridgeSupport", task_condition, items,
                  <<"book", "ruler", "car">>, <<"book", "ruler", "car">>)

task_setup(task, task_condition) ==
    CASE task = "CandleBox" -> candle_box_setup(task_condition)
      [] task = "KatoriStand" -> katori_stand_setup(task_condition)
      [] task = "HangerWire" -> hanger_wire_setup(task_condition)
      [] task = "BridgeSupport" -> bridge_support_setup(task_condition)

(***************************************************************************)
(* MOUSEBUTTONDOWN with button 1: the grab search.                         *)
(***************************************************************************)
\* Body of "if item.handle_event(event):" up to the sprite reordering.
grab(s, id, event) ==
    LET s1 == [s EXCEPT !.items[id] = handle_event(s.items[id], event),
                        !.currently_dragged = id]
        s2 == log(s1, "DRAG_START", s.items[id].item_type)
    IN [s2 EXCEPT !.action_count = @ + 1]

\* sprites.remove(item); sprites.add(item): the item is drawn last, on top.
promote(s, id) == [s EXCEPT !.sprites = Append(Remove(@, id), id)]

\* "for item in items_to_check: if item.handle_event(event): ... break".
\* In run_hanger_wire_task the break sits inside "if item in sprites:".
RECURSIVE grab_search(_, _, _)
grab_search(s, items_to_check, event) ==
    IF items_to_check = <<>> THEN s
    ELSE LET id == Head(items_to_check) IN
         IF handle_event_result(s.items[id], event)
         THEN IF s.task = "HangerWire" /\ ~InSeq(id, s.sprites)
              THEN grab_search(grab(s, id, event), Tail(items_to_check), event)
              ELSE promote(grab(s, id, event), id)
         ELSE grab_search(s, Tail(items_to_check), event)

\* The list the pointer-down handler scans, in scan order.
items_to_check(s) ==
    IF s.task = "HangerWire"
    THEN (IF s.wire_sprite # None THEN <<s.wire_sprite>> ELSE <<>>)
         \o Reverse(s.draggables)
    ELSE Reverse(s.draggables)

pointer_down(s, event) == grab_search(s, items_to_check(s), event)

(***************************************************************************)
(* MOUSEBUTTONUP with button 1 while currently_dragged is set.             *)
(***************************************************************************)
\* drag_end that writes the DRAG_END line and leaves the count alone.
drag_end_uncounted(s) ==
    log(s, "DRAG_END", s.items[s.currently_dragged].item_type)

\* The two statements every task runs first: the DRAG_END line and the count.
drag_end(s) ==
    LET d == s.items[s.currently_dragged]
        s1 == log(s, "DRAG_END", d.item_type)
    IN [s1 EXCEPT !.action_count = @ + 1]

\* "if currently_dragged: currently_dragged.handle_event(event)" and
\* "currently_dragged = None".
finalize_drag(s, event) ==
    [s EXCEPT !.items[s.currently_dragged] = handle_event(@, event),
              !.currently_dragged = None]

\* candle_box_rule without the test of box.state in the candle's rule.
candle_box_rule_untacked(s) ==
    LET d == s.items[s.currently_dragged]
        box == s.items["box"]
    IN IF d.item_type = "box" /\ colliderect(d.rect, wall_area_rect) THEN 1
       ELSE IF d.item_type = "tacks" /\ box.is_placed /\ colliderect(d.rect, box.rect)
       THEN 2
       ELSE IF d.item_type = "candle" /\ colliderect(d.rect, box.rect)
       THEN 3
       ELSE 0

\* The rule of run_candle_box_task that the if/elif chain selects: 0 is none.
candle_box_rule(s) ==
    LET d == s.items[s.currently_dragged]
        box == s.items["box"]
    IN IF d.item_type = "box" /\ colliderect(d.rect, wall_area_rect) THEN 1
       ELSE IF d.item_type = "tacks" /\ box.is_placed /\ colliderect(d.rect, box.rect)
       THEN 2
       ELSE IF d.item_type = "candle" /\ box.state = 1 /\ colliderect(d.rect, box.rect)
       THEN 3
       ELSE 0

\* The effect of the selected rule.
candle_box_effect(s, rule) ==
    LET cd == s.currently_dragged
        d == s.items[cd]
    IN CASE rule = 1 ->
              LET r == set_bottom(set_centerx(d.rect, centerx(wall_area_rect)),
                                  bottom(wall_area_rect) - 20)
                  s1 == [s EXCEPT !.items[cd].rect = r,
                                  !.items[cd].is_placed = TRUE,
                                  !.flags["BoxOnWall"] = TRUE]
              IN log(s1, "PLACE", "Box on Wall")
         [] rule = 2 ->
              LET s1 == [s EXCEPT !.items["box"].state = 1,
                                  !.flags["BoxTacked"] = TRUE,
                                  !.sprites = Remove(@, cd),
                                  !.draggables = Remove(@, cd)]
              IN log(s1, "ACTION", "Tack Box")
         [] rule = 3 ->
              LET box == s.items["box"]
                  r == set_midbottom(d.rect, <<centerx(box.rect), box.rect.y>>)
                  s1 == [s EXCEPT !.items[cd].rect = r,
                                  !.items[cd].is_placed = TRUE]
                  s2 == log(s1, "PLACE", "Candle on Box")
              IN [s2 EXCEPT !.outcome = "Solved", !.running = FALSE]
         [] OTHER -> s

\* "if not dropped_successfully:" of run_candle_box_task.
\* candle_box_invalid_drop without the exception for the placed box.
candle_box_invalid_drop_resetting(s) ==
    LET cd == s.currently_dragged
        d == s.items[cd]
        s1 == IF ~contains(inventory_rect, d.rect)
              THEN [s EXCEPT !.incorrect_drops = @ + 1] ELSE s
    IN [s1 EXCEPT !.items[cd] = reset_position(@)]

candle_box_invalid_drop(s) ==
    LET cd == s.currently_dragged
        d == s.items[cd]
        s1 == IF ~contains(inventory_rect, d.rect)
              THEN [s EXCEPT !.incorrect_drops = @ + 1] ELSE s
    IN IF ~(d.item_type = "box" /\ d.is_placed)
       THEN [s1 EXCEPT !.items[cd] = reset_position(@)]
       ELSE s1

candle_box_drop(s, event) ==
    LET s1 == drag_end(s)
        rule == candle_box_rule(s1)
        s2 == IF rule # 0 THEN candle_box_effect(s1, rule)
              ELSE candle_box_invalid_drop(s1)
    IN finalize_drag(s2, event)

\* --- Katori Stand ---
\* katori_stand_rule without the test of katori.is_placed in the object's
\* rule.
katori_stand_rule_unplaced(s) ==
    LET d == s.items[s.currently_dragged]
        katori == s.items["katori"]
    IN IF d.item_type = "katori" /\ contains(table_rect, d.rect) THEN 1
       ELSE IF d.item_type = "object" /\ colliderect(d.rect, katori.rect)
       THEN 2
       ELSE 0

katori_stand_rule(s) ==
    LET d == s.items[s.currently_dragged]
        katori == s.items["katori"]
    IN IF d.item_type = "katori" /\ contains(table_rect, d.rect) THEN 1
       ELSE IF d.item_type = "object" /\ katori.is_placed
               /\ colliderect(d.rect, katori.rect)
       THEN 2
       ELSE 0

katori_stand_effect(s, rule) ==
    LET cd == s.currently_dragged
        d == s.items[cd]
    IN CASE rule = 1 ->
              LET s1 == [s EXCEPT !.items[cd].is_placed = TRUE,
                                  !.flags["KatoriInverted"] = TRUE]
              IN log(s1, "PLACE", "Katori on Table")
         [] rule = 2 ->
              LET r == set_midbottom(d.rect, midtop(s.items["katori"].rect))
                  s1 == [s EXCEPT !.items[cd].rect = r,
                                  !.items[cd].is_placed = TRUE,
                                  !.flags["ObjectStable"] = TRUE]
                  s2 == log(s1, "PLACE", "Object on Katori")
              IN [s2 EXCEPT !.outcome = "Solved", !.running = FALSE]
         [] OTHER -> s

\* katori_stand_invalid_drop counting a drop only when the item's rectangle
\* does not touch the inventory.
katori_stand_invalid_drop_touching(s) ==
    LET cd == s.currently_dragged
        d == s.items[cd]
        s1 == IF ~colliderect(inventory_rect, d.rect)
              THEN [s EXCEPT !.incorrect_drops = @ + 1] ELSE s
    IN IF ~(d.item_type = "katori" /\ d.is_placed)
       THEN [s1 EXCEPT !.items[cd] = reset_position(@)]
       ELSE s1

katori_stand_invalid_drop(s) ==
    LET cd == s.currently_dragged
        d == s.items[cd]
        s1 == IF ~contains(inventory_rect, d.rect)
              THEN [s EXCEPT !.incorrect_drops = @ + 1] ELSE s
    IN IF ~(d.item_type = "katori" /\ d.is_placed)
       THEN [s1 EXCEPT !.items[cd] = reset_position(@)]
       ELSE s1

katori_stand_drop(s, event) ==
    LET s1 == drag_end(s)
        rule == katori_stand_rule(s1)
        s2 == IF rule # 0 THEN katori_stand_effect(s1, rule)
              ELSE katori_stand_invalid_drop(s1)
    IN finalize_drag(s2, event)

\* Rect.contains takes a rect-style argument: a Rect, four numbers or a pair
\* of pairs.  rect.center is a pair of two numbers, which is none of these,
\* so gap_area_rect.contains(currently_dragged.rect.center) (line 616) and
\* gap_rect.contains(currently_dragged.rect.center) (line 741) raise
\* TypeError("Argument must be rect style object") when they are evaluated.
\* Nothing catches it: the task function, and with it main(), is left.
TypeError == -1

\* --- Hanger Wire ---
hanger_wire_rule(s) ==
    LET d == s.items[s.currently_dragged]
        ring == s.items["ring"]
    IN IF d.item_type = "hanger" /\ contains(workspace_rect, d.rect) THEN 1
       ELSE IF d.item_type = "wire" /\ colliderect(d.rect, ring.rect)
               /\ contains(gap_area_rect, ring.rect)
       THEN 2
       ELSE IF d.item_type = "wire" /\ s.ring_is_attached
       THEN TypeError
       ELSE 0

hanger_wire_effect(s, rule) ==
    LET cd == s.currently_dragged
        d == s.items[cd]
    IN CASE rule = 1 ->
              LET w == [change_visual(d, "wire_piece.png", wire_size, "wire")
                          EXCEPT !.is_transformed = TRUE]
                  s1 == [s EXCEPT !.items[cd] = w,
                                  !.flags["HangerTransformed"] = TRUE,
                                  !.wire_sprite = cd,
                                  !.draggables = Remove(@, "hanger")]
              IN log(s1, "TRANSFORM", "Hanger to Wire")
         [] rule = 2 ->
              LET s1 == [s EXCEPT !.ring_is_attached = TRUE,
                                  !.items[cd].is_attached_to = "ring",
                                  !.items["ring"].is_attached_to = cd]
              IN log(s1, "ATTACH", "Wire to Ring")
         [] rule = 3 ->
              LET s1 == [s EXCEPT !.flags["RingRetrieved"] = TRUE]
                  s2 == log(s1, "RETRIEVE", "Ring with Wire")
              IN [s2 EXCEPT !.outcome = "Solved", !.running = FALSE]
         [] OTHER -> s

\* hanger_wire_invalid_drop returning every unmatched item to the inventory,
\* as the other tasks do.
hanger_wire_invalid_drop_resets(s) ==
    LET cd == s.currently_dragged
        d == s.items[cd]
        s1 == IF ~contains(inventory_rect, d.rect)
              THEN [s EXCEPT !.incorrect_drops = @ + 1] ELSE s
    IN [s1 EXCEPT !.items[cd] = reset_position(@)]

\* hanger_wire_invalid_drop whose reset also gives the item the kind it was
\* created with.
hanger_wire_invalid_drop_reverting(s) ==
    LET cd == s.currently_dragged
        d == s.items[cd]
        original_item_type == d.item_type
        penalised == [s EXCEPT !.incorrect_drops = @ + 1,
                               !.items[cd] = [reset_position(@) EXCEPT
                                                 !.item_type = cd]]
    IN IF original_item_type # "wire" /\ ~contains(inventory_rect, d.rect)
       THEN penalised
       ELSE IF original_item_type = "wire" /\ ~contains(gap_area_rect, d.rect)
       THEN log(s, "PLACE", "Wire")
       ELSE IF ~contains(inventory_rect, d.rect)
       THEN penalised
       ELSE s

hanger_wire_invalid_drop(s) ==
    LET cd == s.currently_dragged
        d == s.items[cd]
        original_item_type == d.item_type
        penalised == [s EXCEPT !.incorrect_drops = @ + 1,
                               !.items[cd] = reset_position(@)]
    IN IF original_item_type # "wire" /\ ~contains(inventory_rect, d.rect)
       THEN penalised
       ELSE IF original_item_type = "wire" /\ ~contains(gap_area_rect, d.rect)
       THEN log(s, "PLACE", "Wire")
       ELSE IF ~contains(inventory_rect, d.rect)
       THEN penalised
       ELSE s

\* hanger_wire_drop that writes the DRAG_END line after the rule's effect.
hanger_wire_drop_logging_after(s, event) ==
    LET rule == hanger_wire_rule(s)
    IN IF rule = TypeError THEN [drag_end(s) EXCEPT !.pc = "raised"]
       ELSE finalize_drag(drag_end(IF rule # 0 THEN hanger_wire_effect(s, rule)
                                   ELSE hanger_wire_invalid_drop(s)), event)

hanger_wire_drop(s, event) ==
    LET s1 == drag_end(s)
        rule == hanger_wire_rule(s1)
    IN IF rule = TypeError THEN [s1 EXCEPT !.pc = "raised"]
       ELSE finalize_drag(IF rule # 0 THEN hanger_wire_effect(s1, rule)
                          ELSE hanger_wire_invalid_drop(s1), event)

\* --- Bridge Support ---
bridge_support_rule(s) ==
    LET d == s.items[s.currently_dragged]
        book == s.items["book"]
        ruler == s.items["ruler"]
        abs(n) == IF n < 0 THEN -n ELSE n
    IN IF d.item_type = "book"
       THEN TypeError
       ELSE IF d.item_type = "ruler" /\ book.is_placed
       THEN (IF colliderect(d.rect, book.rect)
                /\ abs(centery(d.rect) - left_platform_rect.y) < 15
             THEN 2 ELSE 0)
       ELSE IF d.item_type = "car" /\ ruler.is_placed /\ colliderect(d.rect, ruler.rect)
       THEN (IF colliderect(d.rect, left_platform_rect) THEN 3 ELSE 0)
       ELSE IF d.item_type = "car" /\ s.car_on_bridge
               /\ colliderect(d.rect, right_platform_rect)
       THEN 4
       ELSE 0

bridge_support_effect(s, rule) ==
    LET cd == s.currently_dragged
        d == s.items[cd]
    IN CASE rule = 1 ->
              LET v == IF s.task_condition = 1
                       THEN change_visual(d, "book_closed.png", <<100, 30>>, None)
                       ELSE d
                  b == [v EXCEPT !.rect = set_midbottom(v.rect, midbottom(gap_rect)),
                                 !.is_placed = TRUE]
                  s1 == [s EXCEPT !.items[cd] = b, !.flags["BookPlaced"] = TRUE]
              IN log(s1, "PLACE", "Book in Gap")
         [] rule = 2 ->
              LET r == set_centery(d.rect, left_platform_rect.y + (ruler_size[2] \div 2))
                  s1 == [s EXCEPT !.items[cd].rect = r,
                                  !.items[cd].is_placed = TRUE,
                                  !.flags["BridgePlaced"] = TRUE]
              IN log(s1, "PLACE", "Ruler as Bridge")
         [] rule = 3 ->
              LET r == set_midleft(d.rect, <<right(left_platform_rect) - 5,
                                             centery(s.items["ruler"].rect)>>)
                  s1 == [s EXCEPT !.items[cd].rect = r,
                                  !.items[cd].is_placed = TRUE,
                                  !.car_on_bridge = TRUE]
              IN log(s1, "PLACE", "Car on Bridge Start")
         [] rule = 4 ->
              LET s1 == [s EXCEPT !.flags["CarCrossed"] = TRUE]
                  s2 == log(s1, "MOVE", "Car Across Bridge")
              IN [s2 EXCEPT !.outcome = "Solved", !.running = FALSE]
         [] OTHER -> s

\* bridge_support_invalid_drop counting the drop once for lying outside the
\* inventory and once more for the reset that follows.
bridge_support_invalid_drop_recount(s) ==
    LET cd == s.currently_dragged
        d == s.items[cd]
        s1 == IF ~contains(inventory_rect, d.rect)
              THEN [s EXCEPT !.incorrect_drops = @ + 1] ELSE s
    IN IF ~d.is_placed
       THEN [s1 EXCEPT !.incorrect_drops = @ + 1,
                       !.items[cd] = reset_position(@)]
       ELSE s1

\* bridge_support_invalid_drop that takes the car off the bridge without
\* calling reset_position.
bridge_support_invalid_drop_unreset(s) ==
    LET cd == s.currently_dragged
        d == s.items[cd]
        s1 == IF ~contains(inventory_rect, d.rect)
              THEN [s EXCEPT !.incorrect_drops = @ + 1] ELSE s
    IN IF d.item_type = "car" /\ s.car_on_bridge
       THEN [s1 EXCEPT !.car_on_bridge = FALSE]
       ELSE IF ~d.is_placed
       THEN [s1 EXCEPT !.items[cd] = reset_position(@)]
       ELSE s1

bridge_support_invalid_drop(s) ==
    LET cd == s.currently_dragged
        d == s.items[cd]
        s1 == IF ~contains(inventory_rect, d.rect)
              THEN [s EXCEPT !.incorrect_drops = @ + 1] ELSE s
    IN IF d.item_type = "car" /\ s.car_on_bridge
       THEN [s1 EXCEPT !.car_on_bridge = FALSE, !.items[cd] = reset_position(@)]
       ELSE IF ~d.is_placed
       THEN [s1 EXCEPT !.items[cd] = reset_position(@)]
       ELSE s1

bridge_support_drop(s, event) ==
    LET s1 == drag_end(s)
        rule == bridge_support_rule(s1)
    IN IF rule = TypeError THEN [s1 EXCEPT !.pc = "raised"]
       ELSE finalize_drag(IF rule # 0 THEN bridge_support_effect(s1, rule)
                          ELSE bridge_support_invalid_drop(s1), event)

\* The drop-resolution step of the task that s runs.
pointer_up(s, event) ==
    CASE s.task = "CandleBox" -> candle_box_drop(s, event)
      [] s.task = "KatoriStand" -> katori_stand_drop(s, event)
      [] s.task = "HangerWire" -> hanger_wire_drop(s, event)
      [] s.task = "BridgeSupport" -> bridge_support_drop(s, event)

(***************************************************************************)
(* One iteration of "for event in pygame.event.get():".                    *)
(***************************************************************************)
\* on_event that moves the dragged item to the position of each pointer-down
\* as it is handled, not at the end of the frame.
on_event_following(s, event) ==
    IF event.type = "QUIT" THEN [s EXCEPT !.pc = "exited"]
    ELSE IF event.type = "MOUSEBUTTONDOWN" /\ event.button = 1
    THEN pointer_down(IF s.currently_dragged = None THEN s
                      ELSE [s EXCEPT !.items[s.currently_dragged] =
                                        update(@, event.pos)], event)
    ELSE IF event.type = "MOUSEBUTTONUP" /\ event.button = 1
            /\ s.currently_dragged # None
    THEN pointer_up(s, event)
    ELSE s

on_event(s, event) ==
    IF event.type = "QUIT" THEN [s EXCEPT !.pc = "exited"]
    ELSE IF event.type = "MOUSEBUTTONDOWN" /\ event.button = 1
    THEN pointer_down(s, event)
    ELSE IF event.type = "MOUSEBUTTONUP" /\ event.button = 1
            /\ s.currently_dragged # None
    THEN pointer_up(s, event)
    ELSE s

(***************************************************************************)
(* The loop outside the event loop.                                        *)
(***************************************************************************)
max(a, b) == IF a >= b THEN a ELSE b

\* clock.tick, elapsed_seconds, remaining_seconds.  The pointer position
\* that pygame.mouse.get_pos() returns here is read only by the update at
\* the end of the frame, which takes it as its argument.
frame_begin(s, elapsed_seconds) ==
    [s EXCEPT !.elapsed_seconds = elapsed_seconds,
              !.remaining_seconds = max(0, TIMEOUT_SECONDS(s.task) - elapsed_seconds),
              !.pc = "events"]

\* "# Update": the dragged item follows the pointer; in run_hanger_wire_task
\* an attached ring follows the wire.
update_dragged(s, mouse_pos) ==
    IF s.currently_dragged = None THEN s
    ELSE LET cd == s.currently_dragged
             d == update(s.items[cd], mouse_pos)
             s1 == [s EXCEPT !.items[cd] = d]
         IN IF s.task = "HangerWire" /\ d.item_type = "wire" /\ s.ring_is_attached
            THEN [s1 EXCEPT !.items["ring"].rect =
                     set_center(@, <<centerx(d.rect),
                                     bottom(d.rect) - (s.items["ring"].rect.h \div 2)>>)]
            ELSE s1

\* check_timeout that reports a timed-out run with its flags cleared.
check_timeout_clearing(s) ==
    IF s.remaining_seconds <= 0 /\ s.running
    THEN [s EXCEPT !.outcome = "Timeout", !.running = FALSE,
                   !.flags = [f \in DOMAIN @ |-> FALSE]]
    ELSE s

\* check_timeout without the test of running.
check_timeout_unguarded(s) ==
    IF s.remaining_seconds <= 0
    THEN [s EXCEPT !.outcome = "Timeout", !.running = FALSE]
    ELSE s

\* "# Check Timeout".
check_timeout(s) ==
    IF s.remaining_seconds <= 0 /\ s.running
    THEN [s EXCEPT !.outcome = "Timeout", !.running = FALSE]
    ELSE s

\* Update, timeout check, drawing, and the test of "while running:".
frame_end(s, mouse_pos) ==
    LET s1 == check_timeout(update_dragged(s, mouse_pos))
    IN [s1 EXCEPT !.pc = IF s1.running THEN "frame" ELSE "returned"]

\* From the end of one event loop to the start of the next, or to the return.
next_frame(s, mouse_pos, elapsed_seconds) ==
    LET s1 == frame_end(s, mouse_pos)
    IN IF s1.pc = "frame" THEN frame_begin(s1, elapsed_seconds) ELSE s1

(***************************************************************************)
(* The environment: pointer positions, buttons and clock readings.         *)
(***************************************************************************)
\* Pointer positions, in screen pixels: the places where items lie at setup
\* and where the rules put them, a place on each target zone (for an item
\* that no rule accepts there it is a place outside every zone) and a place
\* on the upper edge of the inventory.
Points(task) ==
    CASE task = "CandleBox" ->
           { <<290, 635>>,    \* on the candle
             <<465, 590>>,    \* on the box, beside the tacks of condition 1
             <<500, 625>>,    \* centre of the box (on the tacks in condition 1)
             <<705, 625>>,    \* on the tacks of condition 0
             <<500, 440>>,    \* on the wall, where the placed box lies
             <<500, 540>> }   \* across the inventory's upper edge
      [] task = "KatoriStand" ->
           { <<420, 625>>,    \* on the katori
             <<560, 625>>,    \* on the object
             <<500, 300>>,    \* on the table
             <<500, 550>> }   \* across the inventory's upper edge
      [] task = "HangerWire" ->
           { <<410, 625>>,    \* on the hanger
             <<555, 625>>,    \* on the cloth
             <<200, 200>>,    \* open workspace
             <<500, 340>>,    \* in the gap, wire reaching the ring
             <<500, 260>>,    \* in the gap, wire above the ring
             <<500, 190>>,    \* above the gap, wire end inside it
             <<500, 540>> }   \* across the inventory's upper edge
      [] task = "BridgeSupport" ->
           { <<350, 625>>,    \* on the book
             <<650, 625>>,    \* on the ruler
             <<725, 625>>,    \* on the car (and on the ruler under it)
             <<425, 400>>,    \* in the gap between the platforms
             <<500, 545>> }   \* across the inventory's upper edge

Buttons == {1, 3}

\* The rule the if/elif chain of the task selects for the dragged item.
task_rule(s) ==
    CASE s.task = "CandleBox" -> candle_box_rule(s)
      [] s.task = "KatoriStand" -> katori_stand_rule(s)
      [] s.task = "HangerWire" -> hanger_wire_rule(s)
      [] s.task = "BridgeSupport" -> bridge_support_rule(s)

\* The grabs so far that were made while an item was being dragged: a
\* DRAG_START line right after a DRAG_START line.
Regrabs(s) ==
    LET q == s.action_log
    IN Cardinality({ i \in 2..Len(q) :
           q[i].event = "DRAG_START" /\ q[i - 1].event = "DRAG_START" })

\* The drops so far that matched no rule: DRAG_END lines that no line of a
\* rule follows.
UnmatchedDrops(s) ==
    LET q == s.action_log
    IN Cardinality({ i \in 1..Len(q) :
           /\ q[i].event = "DRAG_END"
           /\ \/ i = Len(q)
              \/ q[i + 1].event \in {"DRAG_START", "DRAG_END"}
              \/ q[i + 1] = Entry("PLACE", "Wire") })

\* Readings of (pygame.time.get_ticks() - start_ticks) / 1000: one before
\* the timeout (as every earlier reading, it leaves remaining_seconds
\* positive), the timeout itself and one after it.
ClockReadings(task) ==
    { TIMEOUT_SECONDS(task) - 1, TIMEOUT_SECONDS(task), TIMEOUT_SECONDS(task) + 1 }

Slips(s) == Regrabs(s) + UnmatchedDrops(s)

\* The position carried by an event that does not read it (a button other
\* than the left one): one point stands for all, the step is the same.
APoint(task) == CHOOSE p \in Points(task) : TRUE

\* pygame.mouse.get_pos() at the top of a frame.  Only the update of the
\* dragged item reads it: with nothing dragged every reading gives the same
\* step, and one point stands for all.
PointerReadings(s) ==
    IF s.currently_dragged = None THEN {APoint(s.task)} ELSE Points(s.task)

(***************************************************************************)
(* The task run as a state machine.  Its states are those in which the     *)
(* task is inside "for event in pygame.event.get():" or has been left.     *)
(***************************************************************************)
\* A task function is called and reaches the event loop of its first frame.
Init ==
    \E task \in Tasks, task_condition \in 0..(NUM_CONDITIONS - 1) :
        \E t \in ClockReadings(task) :
            /\ run = frame_begin(task_setup(task, task_condition), t)
            /\ twin = run
            /\ session = None
            /\ data_file = None
            /\ self = None

PointerDown ==
    /\ run.pc = "events"
    /\ \E button \in Buttons :
       \E pos \in (IF button = 1 THEN Points(run.task) ELSE {APoint(run.task)}) :
          /\ button = 1 => run.action_count < MaxActions
          /\ (button = 1 /\ run.currently_dragged # None)
                => Slips(run) < MaxSlips
          /\ run' = on_event(run, MouseDown(button, pos))
    /\ UNCHANGED <<twin, session, data_file, self>>

PointerUp ==
    /\ run.pc = "events"
    /\ \E button \in Buttons :
          /\ (button = 1 /\ run.currently_dragged # None /\ task_rule(run) = 0)
                => Slips(run) < MaxSlips
          /\ run' = on_event(run, MouseUp(button))
    /\ UNCHANGED <<twin, session, data_file, self>>

PointerMove ==
    /\ run.pc = "events"
    /\ run' = on_event(run, MouseMotion)
    /\ UNCHANGED <<twin, session, data_file, self>>

QuitEvent ==
    /\ run.pc = "events"
    /\ run' = on_event(run, Quit)
    /\ UNCHANGED <<twin, session, data_file, self>>

\* The event queue is drained: the rest of the frame and, while running,
\* the top of the next one.
EndFrame ==
    /\ run.pc = "events"
    /\ \E mouse_pos \in PointerReadings(run), t \in ClockReadings(run.task) :
          /\ t >= run.elapsed_seconds
          /\ run' = next_frame(run, mouse_pos, t)
    /\ UNCHANGED <<twin, session, data_file, self>>

Next ==
    \/ PointerDown
    \/ PointerUp
    \/ PointerMove
    \/ QuitEvent
    \/ EndFrame

Spec == Init /\ [][Next]_vars

\* A frame that ends when the clock has reached the timeout.
LateFrame ==
    /\ run.pc = "events"
    /\ \E mouse_pos \in PointerReadings(run), t \in ClockReadings(run.task) :
          /\ t >= TIMEOUT_SECONDS(run.task)
          /\ t >= run.elapsed_seconds
          /\ run' = next_frame(run, mouse_pos, t)
    /\ UNCHANGED <<twin, session, data_file, self>>

\* The clock advances and the queue of a frame is finite: frames keep ending,
\* and in the end with readings at or past the timeout.
SpecFair == Spec /\ WF_vars(LateFrame)

(***************************************************************************)
(* Two runs of one task side by side, run under condition 0 and twin under *)
(* condition 1, fed the same events and the same clock readings.  A run    *)
(* that has left its loop takes no more input.  The pair is followed up to *)
(* the first state in which the two runs report different results.         *)
(***************************************************************************)
\* What a run reports: its outcome, its milestone flags, its two counters
\* and the event types of its action log, in order.
EventTypes(q) == [i \in 1..Len(q) |-> q[i].event]
Reported(s) ==
    [outcome |-> s.outcome,
     flags |-> s.flags,
     action_count |-> s.action_count,
     incorrect_drops |-> s.incorrect_drops,
     events |-> EventTypes(s.action_log)]

\* The two runs are at the same place and report the same.
InStep == run.pc = twin.pc /\ Reported(run) = Reported(twin)

PairInit ==
    \E task \in Tasks :
        \E t \in ClockReadings(task) :
            /\ run = frame_begin(task_setup(task, 0), t)
            /\ twin = frame_begin(task_setup(task, 1), t)
            /\ session = None
            /\ data_file = None
            /\ self = None

InLoop(s) == s.pc = "events"
deliver(s, event) == IF InLoop(s) THEN on_event(s, event) ELSE s
deliver_frame(s, mouse_pos, t) ==
    IF InLoop(s) THEN next_frame(s, mouse_pos, t) ELSE s

DownWithinBounds(s, button) ==
    InLoop(s) =>
        /\ button = 1 => s.action_count < MaxActions
        /\ (button = 1 /\ s.currently_dragged # None) => Slips(s) < MaxSlips

UpWithinBounds(s, button) ==
    InLoop(s) =>
        ((button = 1 /\ s.currently_dragged # None /\ task_rule(s) = 0)
            => Slips(s) < MaxSlips)

PairPointerDown ==
    /\ InStep
    /\ InLoop(run) \/ InLoop(twin)
    /\ \E button \in Buttons, pos \in Points(run.task) :
          /\ DownWithinBounds(run, button) /\ DownWithinBounds(twin, button)
          /\ run' = deliver(run, MouseDown(button, pos))
          /\ twin' = deliver(twin, MouseDown(button, pos))
    /\ UNCHANGED <<session, data_file, self>>

PairPointerUp ==
    /\ InStep
    /\ InLoop(run) \/ InLoop(twin)
    /\ \E button \in Buttons :
          /\ UpWithinBounds(run, button) /\ UpWithinBounds(twin, button)
          /\ run' = deliver(run, MouseUp(button))
          /\ twin' = deliver(twin, MouseUp(button))
    /\ UNCHANGED <<session, data_file, self>>

PairPointerMove ==
    /\ InStep
    /\ InLoop(run) \/ InLoop(twin)
    /\ run' = deliver(run, MouseMotion)
    /\ twin' = deliver(twin, MouseMotion)
    /\ UNCHANGED <<session, data_file, self>>

PairQuitEvent ==
    /\ InStep
    /\ InLoop(run) \/ InLoop(twin)
    /\ run' = deliver(run, Quit)
    /\ twin' = deliver(twin, Quit)
    /\ UNCHANGED <<session, data_file, self>>

PairEndFrame ==
    /\ InStep
    /\ InLoop(run) \/ InLoop(twin)
    /\ \E mouse_pos \in Points(run.task), t \in ClockReadings(run.task) :
          /\ InLoop(run) => t >= run.elapsed_seconds
          /\ InLoop(twin) => t >= twin.elapsed_seconds
          /\ run' = deliver_frame(run, mouse_pos, t)
          /\ twin' = deliver_frame(twin, mouse_pos, t)
    /\ UNCHANGED <<session, data_file, self>>

PairNext ==
    \/ PairPointerDown
    \/ PairPointerUp
    \/ PairPointerMove
    \/ PairQuitEvent
    \/ PairEndFrame

SpecPair == PairInit /\ [][PairNext]_vars

(***************************************************************************)
(* The session: main() and the data file it writes.                        *)
(***************************************************************************)
\* The data file: whether it exists, and its rows in order.
File(exists, rows) == [exists |-> exists, rows |-> rows]

\* The row of CSV_FIELDNAMES.
Header == [kind |-> "header"]

\* setup_data_logging opening the file with mode 'w': what was there is gone.
setup_data_logging_truncating(f) == File(TRUE, <<Header>>)

\* setup_data_logging: open(DATA_FILE, 'a') creates the file; the header is
\* written if the file did not exist or is empty.
setup_data_logging(f) ==
    LET file_exists == f.exists
    IN File(TRUE, IF ~file_exists \/ Len(f.rows) = 0
                  THEN f.rows \o <<Header>> ELSE f.rows)

\* log_data: open(DATA_FILE, 'a'), the header if the end of the file
\* is at 0, then the row.
log_data(f, data_dict) ==
    LET tell == Len(f.rows)
        with_header == IF tell = 0 THEN f.rows \o <<Header>> ELSE f.rows
    IN File(TRUE, with_header \o <<data_dict>>)

\* assign_condition counting the task's position from 1, as TaskIndex does.
assign_condition_from_one(participant_id_numeric, task_index) ==
    (participant_id_numeric + task_index + 1) % NUM_CONDITIONS

\* Assign condition based on participant and shuffled task index.
assign_condition(participant_id_numeric, task_index) ==
    (participant_id_numeric + task_index) % NUM_CONDITIONS

\* "log_entry" of main, but for the wall-clock fields, flags and log text.
log_entry(s) ==
    [kind |-> "row",
     ParticipantID |-> s.participant_id_numeric,
     TaskIndex |-> s.task_index + 1,
     TaskName |-> s.tasks[s.task_index + 1],
     AssignedCondition |-> s.task_condition,
     Outcome |-> s.task_results]

\* random.randint(1000, 9999): the ends of the range and their neighbours.
ParticipantNumbers == {1000, 1001, 9998, 9999}

\* random.shuffle(tasks): every order of the four tasks.
Orders ==
    { q \in [1..4 -> Tasks] : \A i, j \in 1..4 : q[i] = q[j] => i = j }

\* What the data file may be when the program starts: absent, empty, or left
\* by an earlier session with its header and a row.
EarlierRow ==
    [kind |-> "row", ParticipantID |-> 4242, TaskIndex |-> 4,
     TaskName |-> "KatoriStand", AssignedCondition |-> 1, Outcome |-> "Solved"]
PriorFiles ==
    { File(FALSE, <<>>), File(TRUE, <<>>), File(TRUE, <<Header>>),
      File(TRUE, <<Header, EarlierRow>>) }

\* The outcomes a task function can return (the winning rules of
\* Hanger-Wire and Bridge-Support raise before they can fire).
Outcomes(task) ==
    IF task \in {"CandleBox", "KatoriStand"} THEN {"Solved", "Timeout"}
    ELSE {"Timeout"}

SessionInit ==
    /\ run = None /\ twin = None /\ self = None
    /\ data_file \in PriorFiles
    /\ \E n \in ParticipantNumbers, order \in Orders :
          session = [pc |-> "setup",
                     participant_id_numeric |-> n,
                     tasks |-> order,
                     task_index |-> 0,
                     task_condition |-> None,
                     task_results |-> None,
                     assigned |-> <<>>,
                     io_errors |-> 0]

\* setup_data_logging(); an IOError ends the program (SystemExit).
SetupDataLogging ==
    /\ session.pc = "setup"
    /\ \/ /\ data_file' = setup_data_logging(data_file)
          /\ session' = [session EXCEPT !.pc = "next_task"]
       \/ /\ data_file' = data_file
          /\ session' = [session EXCEPT !.pc = "exited", !.io_errors = @ + 1]
    /\ UNCHANGED <<run, twin, self>>

\* Top of "for task_index, ... in enumerate(tasks)": the condition, the
\* instruction screen, the call of the task function.
AssignCondition ==
    /\ session.pc = "next_task"
    /\ session' =
          LET c == assign_condition(session.participant_id_numeric,
                                    session.task_index)
          IN [session EXCEPT !.pc = "running",
                             !.task_condition = c,
                             !.task_results = None,
                             !.assigned = Append(@, c)]
    /\ UNCHANGED <<run, twin, data_file, self>>

\* The task function returns its data.
TaskReturns ==
    /\ session.pc = "running"
    /\ \E outcome \in Outcomes(session.tasks[session.task_index + 1]) :
          session' = [session EXCEPT !.pc = "log", !.task_results = outcome]
    /\ UNCHANGED <<run, twin, data_file, self>>

\* The task function raises TypeError (lines 616, 741); main does not
\* catch it.
TaskRaises ==
    /\ session.pc = "running"
    /\ session.tasks[session.task_index + 1] \in {"HangerWire", "BridgeSupport"}
    /\ session' = [session EXCEPT !.pc = "raised"]
    /\ UNCHANGED <<run, twin, data_file, self>>

\* pygame.QUIT on a screen or in a task: pygame.quit(); sys.exit().
HostQuit ==
    /\ session.pc \in {"next_task", "running"}
    /\ session' = [session EXCEPT !.pc = "exited"]
    /\ UNCHANGED <<run, twin, data_file, self>>

\* LogData with an IOError of log_data that main does not survive: the
\* program ends where setup_data_logging's IOError ends it.
LogData_uncaught ==
    /\ session.pc = "log"
    /\ \/ /\ data_file' = log_data(data_file, log_entry(session))
          /\ session' = [session EXCEPT
                !.pc = IF session.task_index + 1 = Len(session.tasks)
                       THEN "finished" ELSE "next_task",
                !.task_index = @ + 1]
       \/ /\ data_file' = data_file
          /\ session' = [session EXCEPT !.pc = "exited", !.io_errors = @ + 1]
    /\ UNCHANGED <<run, twin, self>>

\* log_data(log_entry), the transition screen, and after the last task the
\* final screen.  An IOError in log_data is printed and the loop goes on.
LogData ==
    /\ session.pc = "log"
    /\ \/ /\ data_file' = log_data(data_file, log_entry(session))
          /\ session' = [session EXCEPT
                !.pc = IF session.task_index + 1 = Len(session.tasks)
                       THEN "finished" ELSE "next_task",
                !.task_index = @ + 1]
       \/ /\ data_file' = data_file
          /\ session' = [session EXCEPT
                !.pc = IF session.task_index + 1 = Len(session.tasks)
                       THEN "finished" ELSE "next_task",
                !.task_index = @ + 1,
                !.io_errors = @ + 1]
    /\ UNCHANGED <<run, twin, self>>

SessionNext ==
    \/ SetupDataLogging
    \/ AssignCondition
    \/ TaskReturns
    \/ TaskRaises
    \/ HostQuit
    \/ LogData

SpecSession == SessionInit /\ [][SessionNext]_vars

(***************************************************************************)
(* One DraggableItem on its own: any of its methods, with any argument,    *)
(* in any order, from any state of the object.                             *)
(***************************************************************************)
\* The number of method calls followed from each starting state.
MaxCalls == 2

\* Sizes of an item: even and odd sides.
ItemSizes == { <<80, 80>>, <<41, 15>> }
\* Sizes passed to change_visual: the wire's, and one with odd sides.
NewSizes == { wire_size, <<25, 31>> }
ItemHome == <<460, 585>>

\* Pointer positions: the item's corner at home, a point inside both sizes,
\* a point inside the larger only, its right edge, and a point far away.
ItemPoints ==
    { <<460, 585>>, <<480, 595>>, <<500, 625>>, <<540, 625>>, <<300, 200>> }

\* The states an item can be in when a method is called.
ItemStates ==
    { [DraggableItem("hanger.png", size, ItemHome, "hanger") EXCEPT
          !.rect = set_topleft(@, pos),
          !.current_pos = pos,
          !.is_placed = placed,
          !.state = state,
          !.dragging = dragging,
          !.offset = offset] :
        size \in ItemSizes, pos \in {ItemHome, <<300, 200>>},
        placed \in BOOLEAN, state \in {0, 1}, dragging \in BOOLEAN,
        offset \in {<<0, 0>>, <<-40, -40>>} }

ItemEvents ==
    { MouseDown(button, pos) : button \in Buttons, pos \in ItemPoints }
       \cup { MouseUp(button) : button \in Buttons } \cup { MouseMotion }

\* The object after a call, with the calls made so far, the last call's
\* argument and return value, and the object as it was before that call.
Called(s, method, arg, item, result) ==
    [item |-> item, calls |-> s.calls + 1,
     methods |-> Append(s.methods, method), arg |-> arg, result |-> result,
     before |-> s.item]

ItemInit ==
    /\ run = None /\ twin = None /\ session = None /\ data_file = None
    /\ \E item \in ItemStates :
          self = [item |-> item, calls |-> 0,
                  methods |-> <<>>, arg |-> None, result |-> None,
                  before |-> item]

ItemHandleEvent ==
    /\ self.calls < MaxCalls
    /\ \E event \in ItemEvents :
          self' = Called(self, "handle_event", event,
                         handle_event(self.item, event),
                         handle_event_result(self.item, event))
    /\ UNCHANGED <<run, twin, session, data_file>>

ItemUpdate ==
    /\ self.calls < MaxCalls
    /\ \E mouse_pos \in ItemPoints :
          self' = Called(self, "update", mouse_pos,
                         update(self.item, mouse_pos), None)
    /\ UNCHANGED <<run, twin, session, data_file>>

ItemResetPosition ==
    /\ self.calls < MaxCalls
    /\ self' = Called(self, "reset_position", None,
                      reset_position(self.item), None)
    /\ UNCHANGED <<run, twin, session, data_file>>

ItemChangeVisual ==
    /\ self.calls < MaxCalls
    /\ \E new_size \in NewSizes, new_item_type \in {None, "wire"} :
          self' = Called(self, "change_visual", <<new_size, new_item_type>>,
                         change_visual(self.item, "wire_piece.png", new_size,
                                       new_item_type), None)
    /\ UNCHANGED <<run, twin, session, data_file>>

ItemNext ==
    \/ ItemHandleEvent
    \/ ItemUpdate
    \/ ItemResetPosition
    \/ ItemChangeVisual

SpecItem == ItemInit /\ [][ItemNext]_vars


(***************************************************************************)
(* The car rules of run_bridge_support_task on their own inputs: the       *)
(* resolution of a car drop is a function of the locals at the pointer-up. *)
(* The locals are drawn from the situations the two car rules are written  *)
(* for: the book in the gap, the ruler on the platform line, the car       *)
(* either fresh from the inventory or already on the bridge start, and the *)
(* car dragged to a pointer position.  run_bridge_support_task itself does *)
(* not get this far: see bridge_support_rule for the book.                 *)
(***************************************************************************)
\* Left edges of the placed ruler (300 wide): ending at the right platform's
\* edge, spanning the gap onto both platforms, starting at the gap.
RulerPlacings == {200, 275, 350}

\* Pointer positions at the drop; the car was grabbed at its centre, so they
\* are the centres of the dropped car: over the ruler and the left platform,
\* over the ruler and the gap, over the ruler and the right platform, on the
\* right platform beside and below the ruler, in the inventory, in the air.
CarDrops ==
    { <<330, 335>>, <<425, 335>>, <<545, 335>>, <<700, 335>>,
      <<600, 420>>, <<700, 625>>, <<300, 200>> }

\* The locals after the rule's effect on item id lying with its top left
\* corner at pos.
Placed(s, id, pos, rule) ==
    LET g == [s EXCEPT !.currently_dragged = id,
                       !.items[id].rect = set_topleft(@, pos)]
    IN [bridge_support_effect(g, rule) EXCEPT !.currently_dragged = None]

BridgeBuilt(task_condition, ruler_left, on_bridge) ==
    LET s0 == bridge_support_setup(task_condition)
        s1 == Placed(s0, "book", topleft(gap_rect), 1)
        s2 == Placed(s1, "ruler", <<ruler_left, left_platform_rect.y>>, 2)
    IN IF on_bridge THEN Placed(s2, "car", topleft(s2.items["car"].rect), 3)
       ELSE s2

CarInit ==
    \E task_condition \in 0..(NUM_CONDITIONS - 1), ruler_left \in RulerPlacings,
       on_bridge \in BOOLEAN, mouse_pos \in CarDrops :
        LET s == BridgeBuilt(task_condition, ruler_left, on_bridge)
            g == pointer_down(s, MouseDown(1, center(s.items["car"].rect)))
        IN /\ run = frame_begin(update_dragged(g, mouse_pos),
                                TIMEOUT_SECONDS("BridgeSupport") - 1)
           /\ twin = run
           /\ session = None
           /\ data_file = None
           /\ self = None

CarNext == PointerUp

SpecCarDrop == CarInit /\ [][CarNext]_vars


(***************************************************************************)
(* Vocabulary of the properties.                                           *)
(***************************************************************************)
Last(q) == q[Len(q)]
Count(q, event) == Cardinality({ i \in 1..Len(q) : q[i].event = event })
Dragging(s) == { id \in DOMAIN s.items : s.items[id].dragging }
EffectEvents == {"PLACE", "ACTION", "TRANSFORM", "ATTACH", "RETRIEVE", "MOVE"}

\* The step handles a left pointer-up that ends a drag: it appends the
\* DRAG_END line.  The dragged item's rectangle before the step is its final
\* rectangle, the one the rules test.
DropStep ==
    /\ run.pc = "events" /\ run.currently_dragged # None
    /\ Len(run'.action_log) > Len(run.action_log)
    /\ run'.action_log[Len(run.action_log) + 1].event = "DRAG_END"

\* The step handles a left pointer-down that grabs an item.
GrabStep ==
    /\ run.pc = "events"
    /\ Len(run'.action_log) > Len(run.action_log)
    /\ run'.action_log[Len(run.action_log) + 1].event = "DRAG_START"

\* The step drains the queue of a frame in which the task ends.
ExitStep == run.pc = "events" /\ run'.pc = "returned"

\* The position of the pointer-down that grabbed the item, from the offset
\* the grab recorded.
GrabPoint(item) == <<item.rect.x - item.offset[1], item.rect.y - item.offset[2]>>

(***************************************************************************)
(* C1.  In every reachable state of a task run at most one draggable       *)
(* object has isDragging = true.                                           *)
(***************************************************************************)
C1_AtMostOneDragging == Cardinality(Dragging(run)) <= 1

(***************************************************************************)
(* C2.  Once the outcome is terminal (the task is no longer running) no    *)
(* step appends to the action log, changes totalActions or incorrectDrops, *)
(* or changes any object - also not an event queued behind the winning     *)
(* drop in the same frame.                                                 *)
(***************************************************************************)
C2_NothingAfterTerminal ==
    [][ ~run.running =>
          /\ run'.action_log = run.action_log
          /\ run'.action_count = run.action_count
          /\ run'.incorrect_drops = run.incorrect_drops
          /\ run'.items = run.items ]_vars

C4_DownIgnoredWhileDragging ==
    [][ (run.pc = "events" /\ run.currently_dragged # None /\ ~DropStep) =>
          /\ Count(run'.action_log, "DRAG_START") = Count(run.action_log, "DRAG_START")
          /\ run'.action_count = run.action_count
          /\ (run'.pc = "events" => run'.currently_dragged = run.currently_dragged)
          /\ (run'.pc = "events" => Dragging(run') = Dragging(run)) ]_vars


Penalised(s) ==
    LET d == s.items[s.currently_dragged]
    IN IF s.task = "HangerWire" /\ d.item_type = "wire"
       THEN contains(gap_area_rect, d.rect) /\ ~contains(inventory_rect, d.rect)
       ELSE ~contains(inventory_rect, d.rect)

PlacedExempt(task) ==
    CASE task = "CandleBox" -> {"box"}
      [] task = "KatoriStand" -> {"katori"}
      [] task = "HangerWire" -> {}
      [] task = "BridgeSupport" -> {"book", "ruler"}

\* The item as reset_position leaves it, but for the interaction state.
IsReset(before, after) ==
    /\ topleft(after.rect) = before.initial_pos
    /\ after.rect.w = before.rect.w /\ after.rect.h = before.rect.h
    /\ ~after.is_placed
    /\ after.state = 0

\* The item lies as it was dropped, with its flags.
IsLeft(before, after) ==
    /\ after.rect = before.rect
    /\ after.is_placed = before.is_placed
    /\ after.state = before.state

ResetsOnUnmatched(s) ==
    LET cd == s.currently_dragged
        d == s.items[cd]
    IN CASE s.task \in {"CandleBox", "KatoriStand"} ->
              ~(d.is_placed /\ cd \in PlacedExempt(s.task))
         [] s.task = "HangerWire" -> Penalised(s)
         [] s.task = "BridgeSupport" ->
              (d.item_type = "car" /\ s.car_on_bridge) \/ ~d.is_placed

FirstRuleThatHolds(s) ==
    LET d == s.items[s.currently_dragged]
        abs(n) == IF n < 0 THEN -n ELSE n
    IN CASE s.task = "CandleBox" -> candle_box_rule(s)
         [] s.task = "KatoriStand" -> katori_stand_rule(s)
         [] s.task = "HangerWire" ->
              IF d.item_type = "hanger" /\ contains(workspace_rect, d.rect) THEN 1
              ELSE IF d.item_type = "wire" /\ colliderect(d.rect, s.items["ring"].rect)
                      /\ contains(gap_area_rect, s.items["ring"].rect)
              THEN 2
              ELSE IF d.item_type = "wire" /\ s.ring_is_attached
                      /\ ~collidepoint(gap_area_rect, center(d.rect))
              THEN 3
              ELSE 0
         [] s.task = "BridgeSupport" ->
              IF d.item_type = "book" /\ collidepoint(gap_rect, center(d.rect)) THEN 1
              ELSE IF d.item_type = "ruler" /\ s.items["book"].is_placed
                      /\ colliderect(d.rect, s.items["book"].rect)
                      /\ abs(centery(d.rect) - left_platform_rect.y) < 15
              THEN 2
              ELSE IF d.item_type = "car" /\ s.items["ruler"].is_placed
                      /\ colliderect(d.rect, s.items["ruler"].rect)
                      /\ colliderect(d.rect, left_platform_rect)
              THEN 3
              ELSE IF d.item_type = "car" /\ s.car_on_bridge
                      /\ colliderect(d.rect, right_platform_rect)
              THEN 4
              ELSE 0

\* The rule whose effect line a drop appended after its DRAG_END line at
\* position i of the log q; 0 if it appended none.
RuleOfEntry(task, e) ==
    CASE e = Entry("PLACE", "Box on Wall") -> 1
      [] e = Entry("ACTION", "Tack Box") -> 2
      [] e = Entry("PLACE", "Candle on Box") -> 3
      [] e = Entry("PLACE", "Katori on Table") -> 1
      [] e = Entry("PLACE", "Object on Katori") -> 2
      [] e = Entry("TRANSFORM", "Hanger to Wire") -> 1
      [] e = Entry("ATTACH", "Wire to Ring") -> 2
      [] e = Entry("RETRIEVE", "Ring with Wire") -> 3
      [] e = Entry("PLACE", "Book in Gap") -> 1
      [] e = Entry("PLACE", "Ruler as Bridge") -> 2
      [] e = Entry("PLACE", "Car on Bridge Start") -> 3
      [] e = Entry("MOVE", "Car Across Bridge") -> 4
      [] OTHER -> 0

AppliedRule(task, q, i) ==
    IF Len(q) > i THEN RuleOfEntry(task, q[i + 1]) ELSE 0

(***************************************************************************)
(* C7.  On a drop exactly the first rule, in declaration order, whose      *)
(* source kind, precondition and target test all hold is applied, and no   *)
(* other; in Hanger-Wire a wire drop for which both the attach rule and    *)
(* the retrieve rule hold is resolved as ATTACH.                           *)
(***************************************************************************)
C7_FirstMatchingRuleApplied ==
    [][ DropStep =>
          AppliedRule(run.task, run'.action_log, Len(run.action_log) + 1)
              = FirstRuleThatHolds(run) ]_vars

(***************************************************************************)
(* C8.  After object X has been grabbed, a later pointer-down (with no     *)
(* other grab in between) at a point inside both X and another live object *)
(* grants the grab to X: X was promoted to the top by its grab.            *)
(***************************************************************************)
C8_LastGrabbedWinsOverlap ==
    [][ (GrabStep /\ run.currently_dragged = None
           /\ Count(run.action_log, "DRAG_START") > 0) =>
          LET X == Last(run.sprites)
              g == run'.currently_dragged
              p == GrabPoint(run'.items[g])
          IN (InSeq(X, items_to_check(run)) /\ collidepoint(run.items[X].rect, p))
                => g = X ]_vars


(***************************************************************************)
(* C9 as stated.  For the same task, the same input events and the same    *)
(* clock readings, the run under condition 0 and the run under condition 1 *)
(* have the same outcome, the same milestone flags, the same totalActions  *)
(* and incorrectDrops and the same sequence of action-log event types.     *)
(***************************************************************************)
C9_ConditionBlind == Reported(run) = Reported(twin) /\ run.pc = twin.pc

(***************************************************************************)
(* C9 as amended.  In Katori-Stand, Hanger-Wire and Bridge-Support the     *)
(* same input events and clock readings give the run under condition 0 and *)
(* the run under condition 1 the same outcome, milestone flags,            *)
(* totalActions, incorrectDrops and action-log event types, and the same   *)
(* rectangles and placement flags of every object.  Candle-Box is not      *)
(* covered: condition 1 starts the tacks at the centre of the box, not in  *)
(* their own place, so the same pointer positions reach other objects.     *)
(***************************************************************************)
C9_ConditionBlindButCandleBox ==
    run.task # "CandleBox" =>
        /\ Reported(run) = Reported(twin)
        /\ run.pc = twin.pc
        /\ run.draggables = twin.draggables
        /\ run.currently_dragged = twin.currently_dragged
        /\ \A id \in DOMAIN run.items :
              /\ run.items[id].rect = twin.items[id].rect
              /\ run.items[id].is_placed = twin.items[id].is_placed
              /\ run.items[id].item_type = twin.items[id].item_type

\* Katori-Stand under both conditions, solved by the same events after one
\* drop that matched no rule.
C9_Witness ==
    /\ run.task = "KatoriStand" /\ twin.task = "KatoriStand"
    /\ run.task_condition = 0 /\ twin.task_condition = 1
    /\ run.outcome = "Solved" /\ twin.outcome = "Solved"
    /\ run.incorrect_drops = 1 /\ twin.incorrect_drops = 1
    /\ run.action_count = 6 /\ twin.action_count = 6

\* Candle-Box under condition 0.
CandleBox0 == run.task = "CandleBox" /\ run.task_condition = 0

\* The dragged item is of the kind, and its rectangle overlaps the target's.
DroppedOn(kind, target) ==
    /\ run.items[run.currently_dragged].item_type = kind
    /\ colliderect(run.items[run.currently_dragged].rect, target)

(***************************************************************************)
(* C10.  Scenario A (Candle-Box, condition 0).  Dropping the box           *)
(* overlapping the wall zone sets the box's is_placed and BoxOnWall;       *)
(* dropping the tacks overlapping the placed box sets the box's state to   *)
(* 1 and BoxTacked and removes the tacks from the draggables, and no later *)
(* step grabs them; dropping the candle overlapping the tacked box makes   *)
(* the outcome Solved with BoxOnWall and BoxTacked true.  The candle rule  *)
(* does not fire before the box is tacked, nor the tacks rule before the   *)
(* box is placed.                                                          *)
(***************************************************************************)
C10_ScenarioA ==
    /\ [](CandleBox0 =>
            /\ run.flags.BoxTacked =>
                  /\ run.flags.BoxOnWall /\ run.items["box"].is_placed
                  /\ run.items["box"].state = 1
                  /\ ~InSeq("tacks", run.draggables)
                  /\ ~InSeq("tacks", run.sprites)
                  /\ run.currently_dragged # "tacks"
            /\ run.outcome = "Solved" =>
                  run.flags.BoxOnWall /\ run.flags.BoxTacked
            /\ run.flags.BoxOnWall => run.items["box"].is_placed)
    /\ [][ (CandleBox0 /\ DropStep) =>
             LET box == run.items["box"]
                 fired(arg) ==
                     Len(run'.action_log) > Len(run.action_log) + 1
                     /\ run'.action_log[Len(run.action_log) + 2].arg = arg
             IN /\ DroppedOn("box", wall_area_rect) =>
                      /\ run'.items["box"].is_placed
                      /\ run'.flags.BoxOnWall
                /\ (DroppedOn("tacks", box.rect) /\ box.is_placed) =>
                      /\ run'.items["box"].state = 1
                      /\ run'.flags.BoxTacked
                      /\ ~InSeq("tacks", run'.draggables)
                /\ (DroppedOn("candle", box.rect) /\ box.state = 1) =>
                      /\ run'.outcome = "Solved"
                      /\ ~run'.running
                      /\ run'.flags.BoxOnWall /\ run'.flags.BoxTacked
                /\ fired("Candle on Box") => run.flags.BoxTacked
                /\ fired("Tack Box") => run.flags.BoxOnWall
                /\ ~run.flags.BoxTacked => run'.outcome = run.outcome
                /\ ~run.flags.BoxOnWall =>
                      run'.flags.BoxTacked = run.flags.BoxTacked ]_vars
    /\ [][ (CandleBox0 /\ run.flags.BoxTacked) =>
             /\ run'.currently_dragged # "tacks"
             /\ ~run'.items["tacks"].dragging
             /\ ~InSeq("tacks", run'.draggables) ]_vars

\* Scenario A played to its end: box to the wall, tacks to the box, candle to
\* the box, and nothing else.
C10_Witness ==
    /\ CandleBox0
    /\ run.outcome = "Solved" /\ ~run.running
    /\ run.flags.BoxOnWall /\ run.flags.BoxTacked
    /\ run.action_count = 6 /\ run.incorrect_drops = 0
    /\ run.action_log =
          << Entry("DRAG_START", "box"), Entry("DRAG_END", "box"),
             Entry("PLACE", "Box on Wall"),
             Entry("DRAG_START", "tacks"), Entry("DRAG_END", "tacks"),
             Entry("ACTION", "Tack Box"),
             Entry("DRAG_START", "candle"), Entry("DRAG_END", "candle"),
             Entry("PLACE", "Candle on Box") >>

\* Hanger-Wire: the attach rule's tests hold for the dragged item.
AttachHolds(s) ==
    LET d == s.items[s.currently_dragged]
    IN /\ d.item_type = "wire"
       /\ colliderect(d.rect, s.items["ring"].rect)
       /\ contains(gap_area_rect, s.items["ring"].rect)

(***************************************************************************)
(* C11.  Scenario C (Hanger-Wire).  Dropping the hanger entirely inside    *)
(* the workspace turns it into the wire, sets HangerTransformed and takes  *)
(* the hanger off the draggables, the wire staying grabbable; dropping the *)
(* wire on the ring while the ring is inside the gap attaches the ring;    *)
(* dropping the attached wire with its centre outside the gap (the attach  *)
(* rule not holding again) sets RingRetrieved and makes the outcome        *)
(* Solved.                                                                 *)
(***************************************************************************)
C11_ScenarioC ==
    [][ (run.task = "HangerWire" /\ DropStep) =>
          LET cd == run.currently_dragged
              d == run.items[cd]
          IN /\ (d.item_type = "hanger" /\ contains(workspace_rect, d.rect)) =>
                   /\ run'.items[cd].item_type = "wire"
                   /\ run'.flags.HangerTransformed
                   /\ ~InSeq(cd, run'.draggables)
                   /\ InSeq(cd, items_to_check(run'))
             /\ AttachHolds(run) => run'.ring_is_attached
             /\ (d.item_type = "wire" /\ run.ring_is_attached /\ ~AttachHolds(run)
                   /\ ~collidepoint(gap_area_rect, center(d.rect))) =>
                   /\ run'.flags.RingRetrieved
                   /\ run'.outcome = "Solved" ]_vars

\* The log line of the rule that solves the task.
WinningEntry(task) ==
    CASE task = "CandleBox" -> Entry("PLACE", "Candle on Box")
      [] task = "KatoriStand" -> Entry("PLACE", "Object on Katori")
      [] task = "HangerWire" -> Entry("RETRIEVE", "Ring with Wire")
      [] task = "BridgeSupport" -> Entry("MOVE", "Car Across Bridge")

\* A winning rule has fired in the run.
Won(s) == InSeq(WinningEntry(s.task), s.action_log)

\* The run is over otherwise than by the host's quit signal.
Ended(s) == s.pc \in {"returned", "raised"}

\* Outcome stability, the part of C12 about runs that have left Running:
\* the outcome is Solved or Timeout, Solved exactly if a winning rule fired,
\* the first time while Running; after Running the outcome stays and
\* Running does not come back.
OutcomeStable ==
    /\ [](/\ run.outcome \in {"Solved", "Timeout"}
          /\ run.outcome = "Solved" <=> Won(run)
          /\ Won(run) => ~run.running)
    /\ [][ /\ (~Won(run) /\ Won(run')) => run.running
           /\ ~run.running => (~run'.running /\ run'.outcome = run.outcome) ]_vars

(***************************************************************************)
(* C12.  Every task run ends with exactly one outcome in {Solved,          *)
(* Timeout}: a run that is over has left Running through the winning rule  *)
(* or the timeout and returns that outcome; the outcome is Solved iff a    *)
(* winning rule fired while Running; once the run has left Running the     *)
(* outcome never changes and Running never comes back.                     *)
(***************************************************************************)
C12_ExactlyOneOutcome ==
    /\ OutcomeStable
    /\ [](Ended(run) =>
            /\ run.pc = "returned" /\ ~run.running
            /\ run.outcome \in {"Solved", "Timeout"})

(***************************************************************************)
(* C13.  Every task run terminates.  Remaining time is the timeout minus   *)
(* the elapsed time, clamped at 0; in a frame with no remaining time the   *)
(* end of the frame leaves the loop, with outcome Timeout if no winning    *)
(* drop occurred, whatever events the frame handled (an unfinished drag    *)
(* included); and with the clock advancing every run comes to return its   *)
(* result (or is ended by the host's quit signal).                         *)
(***************************************************************************)
C13_TimeoutTerminates ==
    /\ [](run.remaining_seconds
            = max(0, TIMEOUT_SECONDS(run.task) - run.elapsed_seconds))
    /\ []((run.pc = "events" /\ run.remaining_seconds <= 0) =>
            \A mouse_pos \in Points(run.task) :
                LET s == frame_end(run, mouse_pos)
                IN /\ s.pc = "returned" /\ ~s.running
                   /\ ~Won(run) => s.outcome = "Timeout")
    /\ [][ (run.pc = "events" /\ run.remaining_seconds <= 0
              /\ run'.pc # "events") =>
             \/ run'.pc = "exited"
             \/ run'.pc = "returned" /\ (~Won(run) => run'.outcome = "Timeout") ]_vars
    /\ <>(run.pc \in {"returned", "exited"})

(***************************************************************************)
(* C14.  In all four tasks incorrect_drops starts at 0, is never negative  *)
(* and never decreases from one step to the next; only a pointer-up that   *)
(* ends a drag changes it, and by exactly one.                             *)
(***************************************************************************)
C14_IncorrectDropsMonotone ==
    /\ run.incorrect_drops = 0
    /\ [](run.incorrect_drops >= 0)
    /\ [][ /\ run'.incorrect_drops >= run.incorrect_drops
           /\ run'.incorrect_drops <= run.incorrect_drops + 1
           /\ run'.incorrect_drops # run.incorrect_drops => DropStep ]_vars

\* Bridge-Support: the ruler was dropped outside the inventory, matched no
\* rule, was counted and sent back.
C14_Witness ==
    /\ run.task = "BridgeSupport"
    /\ run.incorrect_drops = 1
    /\ run.currently_dragged = None
    /\ Last(run.action_log) = Entry("DRAG_END", "ruler")

(***************************************************************************)
(* C15.  At every point of a run action_count equals the number of         *)
(* DRAG_START lines plus the number of DRAG_END lines of the action log;   *)
(* it changes only on a successful grab and on a pointer-up that ends a    *)
(* drag, each time by one.                                                 *)
(***************************************************************************)
C15_ActionsAreDragLines ==
    /\ [](run.action_count = Count(run.action_log, "DRAG_START")
                               + Count(run.action_log, "DRAG_END"))
    /\ [][ /\ run'.action_count # run.action_count =>
                /\ run'.action_count = run.action_count + 1
                /\ GrabStep \/ DropStep
           /\ (GrabStep \/ DropStep) =>
                run'.action_count = run.action_count + 1 ]_vars

\* Hanger-Wire after two grabs and two drops, the log holding two more lines
\* (TRANSFORM, ATTACH) that are not counted.
C15_Witness ==
    /\ run.task = "HangerWire"
    /\ run.action_count = 4
    /\ Len(run.action_log) = 6
    /\ run.ring_is_attached

(***************************************************************************)
(* The result a task function returns ("# Task End & Data Return").         *)
(***************************************************************************)
\* " | ".join(action_log): the lines in order, the separator between them.
Separator == [event |-> " | ", arg |-> ""]
RECURSIVE join(_)
join(q) ==
    IF q = <<>> THEN <<>>
    ELSE IF Len(q) = 1 THEN q
    ELSE <<Head(q), Separator>> \o join(Tail(q))

\* The dict "data", but for the wall-clock fields.
task_data(s) ==
    [Outcome |-> s.outcome,
     TotalActions |-> s.action_count,
     IncorrectDrops |-> s.incorrect_drops,
     Flags |-> s.flags,
     ActionLog |-> join(s.action_log),
     TaskName |-> s.task]

\* The lines of a joined log, in order.
Lines(joined) == SelectSeq(joined, LAMBDA e : e # Separator)

\* q is an initial part of r.
IsPrefix(q, r) == Len(q) <= Len(r) /\ SubSeq(r, 1, Len(q)) = q

(***************************************************************************)
(* C16.  The action log is append-only: the log before a step is a prefix  *)
(* of the log after it, also when the step resets an item or changes state *)
(* recorded earlier; and the ActionLog of the result is exactly the lines  *)
(* appended, in the order of appending.                                    *)
(***************************************************************************)
C16_LogAppendOnly ==
    /\ [][ IsPrefix(run.action_log, run'.action_log) ]_vars
    /\ [](run.pc = "returned" =>
            /\ Lines(task_data(run).ActionLog) = run.action_log
            /\ Len(task_data(run).ActionLog)
                 = IF run.action_log = <<>> THEN 0
                   ELSE 2 * Len(run.action_log) - 1)

\* Candle-Box timed out after the box, placed on the wall by an earlier
\* drop, was dropped elsewhere: the PLACE line is still in the returned log.
C16_Witness ==
    /\ run.task = "CandleBox"
    /\ run.pc = "returned" /\ run.outcome = "Timeout"
    /\ run.action_log =
          << Entry("DRAG_START", "box"), Entry("DRAG_END", "box"),
             Entry("PLACE", "Box on Wall"),
             Entry("DRAG_START", "box"), Entry("DRAG_END", "box") >>
    /\ Len(task_data(run).ActionLog) = 9

(***************************************************************************)
(* C17.  Milestone flags are monotone: a flag that is true stays true      *)
(* through every later step - a failed drop, a reset, the timeout - and    *)
(* the result reports the flags as they were when the loop was left, for   *)
(* Solved and for Timeout.                                                 *)
(***************************************************************************)
C17_FlagsMonotone ==
    /\ [][ \A f \in DOMAIN run.flags : run.flags[f] => run'.flags[f] ]_vars
    /\ [][ ExitStep => task_data(run').Flags = run.flags ]_vars
    /\ [](run.pc = "returned" =>
            DOMAIN task_data(run).Flags = TaskFlags(run.task))

\* Katori-Stand timed out after the katori was placed on the table and a
\* later drop failed and was counted: KatoriInverted is reported true.
C17_Witness ==
    /\ run.task = "KatoriStand"
    /\ run.pc = "returned" /\ run.outcome = "Timeout"
    /\ run.incorrect_drops = 1
    /\ task_data(run).Flags.KatoriInverted
    /\ ~task_data(run).Flags.ObjectStable

\* n is even.
Even(n) == \E k \in 0..n : n = 2 * k

(***************************************************************************)
(* C18.  The condition of the task at position i (from 0) of the shuffled  *)
(* sequence is (seed + i) mod 2, a function of the participant's number    *)
(* and the position alone: 0 exactly if seed + i is even; consecutive      *)
(* tasks alternate; the row written for a task carries that condition; and *)
(* a session that ran its four tasks gave condition 0 to exactly two of    *)
(* them and condition 1 to the other two.                                  *)
(***************************************************************************)
C18_ConditionAssignment ==
    LET seed == session.participant_id_numeric
        a == session.assigned
    IN /\ \A i \in 1..Len(a) :
             /\ a[i] \in {0, 1}
             /\ a[i] = 0 <=> Even(seed + (i - 1))
       /\ \A i \in 1..(Len(a) - 1) : a[i + 1] = 1 - a[i]
       /\ \A k \in 1..Len(data_file.rows) :
             LET r == data_file.rows[k]
             IN (r.kind = "row" /\ r.ParticipantID = seed) =>
                    r.AssignedCondition = a[r.TaskIndex]
       /\ session.pc = "finished" =>
             /\ Len(a) = 4
             /\ Cardinality({ i \in 1..4 : a[i] = 0 }) = 2
             /\ Cardinality({ i \in 1..4 : a[i] = 1 }) = 2

\* A session with an odd participant number ran its four tasks and wrote
\* their four rows: conditions 1, 0, 1, 0.
C18_Witness ==
    /\ session.pc = "finished"
    /\ session.participant_id_numeric = 9999
    /\ session.assigned = <<1, 0, 1, 0>>
    /\ Cardinality({ k \in 1..Len(data_file.rows) :
                       data_file.rows[k].kind = "row"
                       /\ data_file.rows[k].ParticipantID = 9999 }) = 4

(***************************************************************************)
(* C19.  Within a frame the queued events are handled first, every drop    *)
(* they cause being resolved as it is handled; only then does the dragged  *)
(* item follow the pointer, and then the timeout is checked.  A step that  *)
(* handles an event moves no item to the pointer and takes no timeout; the *)
(* step that ends the frame leaves the loop exactly if time is up or the   *)
(* task was solved, and the items of the run it returns are those of the   *)
(* frame after the update to the pointer position the dragged item shows.  *)
(***************************************************************************)
C19_FrameOrder ==
    [][ run.pc = "events" =>
          IF Len(run'.action_log) # Len(run.action_log)
          THEN /\ run'.elapsed_seconds = run.elapsed_seconds
               /\ run'.remaining_seconds = run.remaining_seconds
               /\ run'.pc \in {"events", "raised"}
               /\ run'.outcome # run.outcome => run'.outcome = "Solved"
               /\ IF GrabStep
                  THEN \A id \in DOMAIN run.items :
                          run'.items[id].rect = run.items[id].rect
                  ELSE LET cd == run.currently_dragged
                           d == run.items[cd]
                           e == run'.items[cd]
                       IN /\ DropStep
                          /\ \A id \in DOMAIN run.items \ {cd} :
                                run'.items[id].rect = run.items[id].rect
                          /\ \/ e.rect = d.rect
                             \/ topleft(e.rect) = d.initial_pos
                             \/ AppliedRule(run.task, run'.action_log,
                                            Len(run.action_log) + 1) # 0
          ELSE \/ run'.pc = "exited"
               \/ IF run.remaining_seconds <= 0 \/ ~run.running
                  THEN /\ run'.pc = "returned"
                       /\ run'.outcome = IF run.running THEN "Timeout"
                                         ELSE run.outcome
                       /\ run'.items =
                             IF run.currently_dragged = None THEN run.items
                             ELSE update_dragged(run,
                                     GrabPoint(run'.items[run.currently_dragged])).items
                  ELSE run'.pc # "returned" ]_vars

\* Candle-Box: the box was placed on the wall by a drop, and the candle,
\* grabbed afterwards, has followed the pointer at the end of a frame.
C19_Witness ==
    /\ run.task = "CandleBox"
    /\ run.pc = "events"
    /\ run.flags.BoxOnWall
    /\ run.currently_dragged = "candle"
    /\ topleft(run.items["candle"].rect) # run.items["candle"].initial_pos

(***************************************************************************)
(* C20.  The data file only grows at its end.  Setup and every record      *)
(* write leave the rows already there as they were; a record write adds    *)
(* its one row after them (none if the write fails); the header is written *)
(* only to a new or empty file, so a file has one header, in its first     *)
(* line, whatever the order of setups and record writes.                   *)
(***************************************************************************)
RECURSIVE HeaderCount(_)
HeaderCount(rows) ==
    IF rows = <<>> THEN 0
    ELSE (IF Head(rows) = Header THEN 1 ELSE 0) + HeaderCount(Tail(rows))

\* One call on the sink: setup_data_logging() or log_data(row).
SinkCalls == {"setup", "write"}
Call(f, op, row) ==
    IF op = "setup" THEN setup_data_logging(f) ELSE log_data(f, row)

\* The file after the call "op" on f: old rows kept in front, one new row
\* for a write and none for a setup, the header in front iff f was empty.
Appends(f, g, op, row) ==
    /\ g.exists
    /\ IsPrefix(f.rows, g.rows)
    /\ Len(g.rows) = Len(f.rows) + (IF Len(f.rows) = 0 THEN 1 ELSE 0)
                                 + (IF op = "write" THEN 1 ELSE 0)
    /\ Len(f.rows) = 0 => g.rows[1] = Header
    /\ op = "write" => g.rows[Len(g.rows)] = row
    /\ HeaderCount(g.rows) =
          HeaderCount(f.rows) + (IF Len(f.rows) = 0 THEN 1 ELSE 0)

C20_AppendOnly ==
    /\ [](  /\ HeaderCount(data_file.rows) <= 1
            /\ Len(data_file.rows) > 0 => data_file.rows[1] = Header
            /\ \A op1, op2, op3 \in SinkCalls :
                  LET f == data_file
                      g == Call(f, op1, EarlierRow)
                      h == Call(g, op2, EarlierRow)
                      k == Call(h, op3, EarlierRow)
                  IN /\ Appends(f, g, op1, EarlierRow)
                     /\ Appends(g, h, op2, EarlierRow)
                     /\ Appends(h, k, op3, EarlierRow)
                     /\ HeaderCount(k.rows) = 1)
    /\ [][ /\ IsPrefix(data_file.rows, data_file'.rows)
           /\ session.pc = "setup" =>
                 \/ data_file' = data_file
                 \/ Appends(data_file, data_file', "setup", Header)
           /\ session.pc = "log" =>
                 \/ data_file' = data_file /\ session'.io_errors > session.io_errors
                 \/ Appends(data_file, data_file', "write", log_entry(session))
           /\ session.pc \notin {"setup", "log"} => data_file' = data_file ]_vars

\* A session that ran its four tasks on the file an earlier session left:
\* the earlier row is where it was, four rows follow it, one header.
C20_Witness ==
    /\ session.pc = "finished"
    /\ session.io_errors = 0
    /\ Len(data_file.rows) = 6
    /\ data_file.rows[1] = Header
    /\ data_file.rows[2] = EarlierRow
    /\ \A i \in 3..6 : data_file.rows[i].ParticipantID = session.participant_id_numeric

(***************************************************************************)
(* C21.  A record write that fails is reported and the session goes on:    *)
(* the record is lost (the file is as it was), the session moves to the    *)
(* next task, or to the final screen after the last one, exactly as after  *)
(* a write that succeeded; every task reached is started whatever failed   *)
(* before it, and every task that returned has had its write attempted.    *)
(***************************************************************************)
\* The rows of this session's participant in the file.
OwnRows(s, f) ==
    { i \in 1..Len(f.rows) :
         /\ f.rows[i] # Header
         /\ f.rows[i].ParticipantID = s.participant_id_numeric }

\* setup_data_logging failed: the only failure before the first task.
SetupFailed(s) == s.pc = "exited" /\ s.task_index = 0 /\ s.io_errors = 1

C21_WriteFailureDoesNotAbort ==
    /\ [][ (session.pc = "log" /\ session'.io_errors > session.io_errors) =>
             /\ data_file' = data_file
             /\ session'.io_errors = session.io_errors + 1
             /\ session'.task_index = session.task_index + 1
             /\ session'.tasks = session.tasks
             /\ session'.participant_id_numeric = session.participant_id_numeric
             /\ session'.pc = IF session.task_index + 1 = Len(session.tasks)
                              THEN "finished" ELSE "next_task" ]_vars
    /\ [][ (session.pc = "next_task" /\ session'.pc # "exited") =>
             /\ session'.pc = "running"
             /\ session'.task_index = session.task_index
             /\ session'.task_condition =
                   assign_condition(session.participant_id_numeric,
                                    session.task_index) ]_vars
    /\ [](~SetupFailed(session) =>
             /\ session.pc = "next_task" => session.task_index < Len(session.tasks)
             /\ Cardinality(OwnRows(session, data_file)) + session.io_errors
                   = session.task_index
             /\ session.pc = "finished" => Len(session.assigned) = Len(session.tasks))

\* The write of the first task's record failed; the three tasks after it
\* were run and their records are in the file.
C21_Witness ==
    /\ session.pc = "finished"
    /\ session.io_errors = 1
    /\ Cardinality(OwnRows(session, data_file)) = 3
    /\ \A i \in OwnRows(session, data_file) : data_file.rows[i].TaskIndex > 1

(***************************************************************************)
(* C22.  Once the box of Candle-Box or the katori of Katori-Stand is       *)
(* placed, no step clears its is_placed; a failed drop of the placed item  *)
(* itself leaves it where it was dropped (it is not reset), and a failed   *)
(* drop of any item leaves every other item, position and flags, as it     *)
(* was.                                                                    *)
(***************************************************************************)
\* The item the invalid-drop branch exempts from reset_position.
Keeper(task) == IF task = "CandleBox" THEN "box" ELSE "katori"

\* The step handles a drop that no rule matched.
FailedDropStep ==
    /\ DropStep
    /\ AppliedRule(run.task, run'.action_log, Len(run.action_log) + 1) = 0

C22_PlacedStaysPlaced ==
    [][ /\ (/\ run.task \in {"CandleBox", "KatoriStand"}
            /\ run.items[Keeper(run.task)].is_placed)
               => /\ run'.items[Keeper(run.task)].is_placed
                  /\ (FailedDropStep /\ run.currently_dragged = Keeper(run.task))
                        => /\ run'.items[Keeper(run.task)].rect
                                 = run.items[Keeper(run.task)].rect
                           /\ run'.items[Keeper(run.task)].state
                                 = run.items[Keeper(run.task)].state
        /\ FailedDropStep =>
              \A id \in DOMAIN run.items \ {run.currently_dragged} :
                 run'.items[id] = run.items[id] ]_vars

\* Candle-Box: the box, placed on the wall, was dragged off it and dropped
\* where no rule holds; it is still placed and lies where it was dropped.
C22_Witness ==
    /\ run.task = "CandleBox"
    /\ Len(run.action_log) = 5
    /\ run.action_log[3] = Entry("PLACE", "Box on Wall")
    /\ run.action_log[5] = Entry("DRAG_END", "box")
    /\ run.items["box"].is_placed
    /\ ~colliderect(run.items["box"].rect, wall_area_rect)
    /\ topleft(run.items["box"].rect) # run.items["box"].initial_pos

(***************************************************************************)
(* C23.  reset_position puts the item's rectangle and current_pos at       *)
(* initial_pos and clears is_placed and state, changing nothing else; a    *)
(* second reset_position right after it changes nothing at all.  Both hold *)
(* from every state of the item.                                           *)
(***************************************************************************)
\* The method called last.
Method(s) == IF s.methods = <<>> THEN None ELSE s.methods[Len(s.methods)]

C23_ResetIdempotent ==
    /\ LET once == reset_position(self.item)
           twice == reset_position(once)
       IN /\ topleft(once.rect) = self.item.initial_pos
          /\ once.current_pos = self.item.initial_pos
          /\ ~once.is_placed
          /\ once.state = 0
          /\ once = [self.item EXCEPT !.rect = once.rect,
                                      !.current_pos = once.current_pos,
                                      !.is_placed = FALSE, !.state = 0]
          /\ once.rect.w = self.item.rect.w /\ once.rect.h = self.item.rect.h
          /\ twice = once
    /\ Method(self) = "reset_position" =>
          /\ topleft(self.item.rect) = self.before.initial_pos
          /\ ~self.item.is_placed /\ self.item.state = 0
          /\ (Len(self.methods) >= 2
                /\ self.methods[Len(self.methods) - 1] = "reset_position")
                => self.item = self.before

\* Two resets in a row of an item that started placed, away from its
\* initial position and with state 1.
C23_Witness ==
    /\ self.methods = <<"reset_position", "reset_position">>
    /\ self.item = self.before
    /\ topleft(self.item.rect) = ItemHome
    /\ \E item \in ItemStates :
          /\ item.is_placed /\ item.state = 1 /\ topleft(item.rect) # ItemHome
          /\ self.item = reset_position(item)

(***************************************************************************)
(* C24.  change_visual keeps the centre of the item's rectangle: the       *)
(* integer centre pygame reports is the same, and the true centre          *)
(* (x + w/2, y + h/2) moves by no more than one unit; the rectangle's      *)
(* width and height become the new size.  This holds for every size,       *)
(* new size and position.                                                  *)
(***************************************************************************)
Abs(n) == IF n >= 0 THEN n ELSE -n

\* Twice the true centre of a rectangle.
center2(r) == <<2 * r.x + r.w, 2 * r.y + r.h>>

CenterKept(old, new, new_size) ==
    /\ center(new.rect) = center(old.rect)
    /\ Abs(center2(new.rect)[1] - center2(old.rect)[1]) <= 2
    /\ Abs(center2(new.rect)[2] - center2(old.rect)[2]) <= 2
    /\ new.rect.w = new_size[1] /\ new.rect.h = new_size[2]
    /\ new.size = new_size

C24_RetargetKeepsCenter ==
    /\ \A new_size \in NewSizes, new_item_type \in {None, "wire"} :
          CenterKept(self.item,
                     change_visual(self.item, "wire_piece.png", new_size,
                                   new_item_type),
                     new_size)
    /\ Method(self) = "change_visual" =>
          CenterKept(self.before, self.item, self.arg[1])

\* An item of odd width and height, moved by the pointer, given a new size
\* of other odd sides: its corner moved, its centre did not.
C24_Witness ==
    /\ self.methods = <<"update", "change_visual">>
    /\ self.before.rect.w = 41
    /\ self.arg[1] = <<25, 31>>
    /\ topleft(self.before.rect) \notin {ItemHome, <<300, 200>>}
    /\ topleft(self.item.rect) # topleft(self.before.rect)
    /\ center(self.item.rect) = center(self.before.rect)

(***************************************************************************)
(* C25.  The kind of an item changes only by change_visual.  In            *)
(* Candle-Box, Katori-Stand and Bridge-Support no step changes any item's  *)
(* kind.  In Hanger-Wire the only change is hanger to wire, made by the    *)
(* drop that the TRANSFORM rule resolves; a wire stays a wire, also when   *)
(* it is reset to the initial position: reset_position leaves the kind of  *)
(* the hanger or wire as it is, and so does the book's change_visual,      *)
(* which names no new item_type.                                           *)
(***************************************************************************)
C25_KindChangesOnlyByRetarget ==
    /\ [][ \A id \in DOMAIN run.items :
              run'.items[id].item_type # run.items[id].item_type
                 => /\ run.task = "HangerWire"
                    /\ run.items[id].item_type = "hanger"
                    /\ run'.items[id].item_type = "wire"
                    /\ DropStep
                    /\ run.currently_dragged = id
                    /\ AppliedRule(run.task, run'.action_log,
                                   Len(run.action_log) + 1) = 1 ]_vars
    /\ [](/\ run.task = "HangerWire" =>
                reset_position(run.items["hanger"]).item_type
                   = run.items["hanger"].item_type
          /\ run.task = "BridgeSupport" =>
                change_visual(run.items["book"], "book_closed.png", <<100, 30>>,
                              None).item_type = "book")

\* Hanger-Wire: the hanger became a wire, and the wire, dropped where no
\* rule holds, was reset to the hanger's initial position: still a wire.
C25_Witness ==
    /\ run.task = "HangerWire"
    /\ run.items["hanger"].item_type = "wire"
    /\ run.currently_dragged = None
    /\ topleft(run.items["hanger"].rect) = run.items["hanger"].initial_pos
    /\ run.incorrect_drops = 1

(***************************************************************************)
(* C26.  A left pointer-down at p grabs the item (handle_event returns     *)
(* True and dragging becomes true) iff p is inside the item's rectangle,   *)
(* and then offset = rect.topleft - p; a pointer-down that does not grab   *)
(* changes nothing.  While the item is dragging, update(q) puts the        *)
(* rectangle at q + offset and leaves offset alone, so the point grabbed   *)
(* stays under the pointer.                                                *)
(***************************************************************************)
\* Where the point p lies in the rectangle r, from r's corner.
PointIn(r, p) == <<p[1] - r.x, p[2] - r.y>>

C26_GrabAndFollow ==
    /\ \A p \in ItemPoints :
          LET event == MouseDown(1, p)
              grabbed == handle_event(self.item, event)
          IN /\ handle_event_result(self.item, event)
                   <=> collidepoint(self.item.rect, p)
             /\ collidepoint(self.item.rect, p) =>
                   /\ grabbed = [self.item EXCEPT !.dragging = TRUE,
                                                  !.offset = grabbed.offset]
                   /\ grabbed.offset = <<self.item.rect.x - p[1],
                                         self.item.rect.y - p[2]>>
                   /\ \A q \in ItemPoints :
                         LET moved == update(grabbed, q)
                         IN /\ topleft(moved.rect)
                                  = <<q[1] + grabbed.offset[1],
                                      q[2] + grabbed.offset[2]>>
                            /\ PointIn(moved.rect, q) = PointIn(self.item.rect, p)
                            /\ moved.offset = grabbed.offset
                            /\ moved.dragging
             /\ ~collidepoint(self.item.rect, p) => grabbed = self.item
    /\ (Method(self) = "handle_event" /\ self.result = TRUE
           /\ self.arg.type = "MOUSEBUTTONDOWN") =>
          /\ self.item.dragging
          /\ PointIn(self.item.rect, self.arg.pos)
                = <<-self.item.offset[1], -self.item.offset[2]>>
    /\ (Method(self) = "update" /\ self.before.dragging) =>
          /\ PointIn(self.item.rect, self.arg)
                = <<-self.before.offset[1], -self.before.offset[2]>>
          /\ self.item.offset = self.before.offset
          /\ self.item.dragging

\* An item away from the pointer is grabbed at a point inside it and then
\* follows the pointer to another place, the grabbed point under it.
C26_Witness ==
    /\ self.calls = 2
    /\ self.methods = <<"handle_event", "update">>
    /\ self.before.dragging
    /\ self.before.offset \notin {<<0, 0>>, <<-40, -40>>}
    /\ topleft(self.item.rect) # topleft(self.before.rect)
    /\ PointIn(self.item.rect, self.arg)
          = <<-self.before.offset[1], -self.before.offset[2]>>

(***************************************************************************)
(* C27.  On an item that is not dragging, handle_event with a pointer-up   *)
(* and update change nothing: rect, is_placed, state, offset, dragging and *)
(* every other field stay as they were, and handle_event returns False.    *)
(***************************************************************************)
C27_NoOpWhenNotDragging ==
    /\ ~self.item.dragging =>
          /\ \A button \in Buttons :
                /\ handle_event(self.item, MouseUp(button)) = self.item
                /\ ~handle_event_result(self.item, MouseUp(button))
          /\ \A mouse_pos \in ItemPoints :
                update(self.item, mouse_pos) = self.item
    /\ (Method(self) = "update" /\ ~self.before.dragging) =>
          self.item = self.before
    /\ (Method(self) = "handle_event" /\ self.arg.type = "MOUSEBUTTONUP"
           /\ ~self.before.dragging) =>
          self.item = self.before /\ self.result = FALSE

\* A placed item that is not dragging: an update with the pointer elsewhere
\* left it as it was.
C27_Witness ==
    /\ self.methods = <<"handle_event", "update">>
    /\ ~self.before.dragging
    /\ self.before.is_placed /\ self.before.state = 1
    /\ self.item = self.before
    /\ topleft(self.item.rect) # <<self.arg[1] + self.item.offset[1],
                                   self.arg[2] + self.item.offset[2]>>


(***************************************************************************)
(* C28                                                                     *)
(***************************************************************************)
\* The dropped car overlaps the placed ruler and the left platform: the full
\* condition of 'car on bridge start'.
CarOnBridgeStartHolds(s) ==
    LET d == s.items[s.currently_dragged]
        ruler == s.items["ruler"]
    IN /\ d.item_type = "car" /\ ruler.is_placed
       /\ colliderect(d.rect, ruler.rect)
       /\ colliderect(d.rect, left_platform_rect)

\* car-on-bridge is set and the dropped car overlaps the right platform: the
\* full condition of 'car across'.
CarAcrossHolds(s) ==
    LET d == s.items[s.currently_dragged]
    IN /\ d.item_type = "car" /\ s.car_on_bridge
       /\ colliderect(d.rect, right_platform_rect)

C28_CarAcrossWinsOffRuler ==
    [][ (/\ DropStep
         /\ run.task = "BridgeSupport"
         /\ ~colliderect(run.items["car"].rect, run.items["ruler"].rect)
         /\ CarAcrossHolds(run))
        => /\ run'.outcome = "Solved"
           /\ ~run'.running
           /\ run'.flags["CarCrossed"] ]_vars

\* In run_bridge_support_task as it runs, the drops of C28 do not occur: the
\* ruler is never placed and car-on-bridge is never set.
C28_NeverOnBridge ==
    run.task = "BridgeSupport"
        => /\ ~run.car_on_bridge
           /\ ~run.items["ruler"].is_placed
           /\ ~run.items["book"].is_placed


(***************************************************************************)
(* C29                                                                     *)
(***************************************************************************)
\* The milestone flags of a task in the order its rules set them.
Milestones(task) ==
    CASE task = "CandleBox" -> <<"BoxOnWall", "BoxTacked">>
      [] task = "KatoriStand" -> <<"KatoriInverted", "ObjectStable">>
      [] task = "HangerWire" -> <<"HangerTransformed", "RingRetrieved">>
      [] task = "BridgeSupport" -> <<"BookPlaced", "BridgePlaced", "CarCrossed">>

\* What the precondition of a later rule reads has been set by the rule of
\* the earlier milestone: box.is_placed and box.state, katori.is_placed, the
\* wire and ring_is_attached, book.is_placed, ruler.is_placed and
\* car_on_bridge.
PreconditionsFlagged(s) ==
    CASE s.task = "CandleBox" ->
              /\ s.items["box"].is_placed => s.flags["BoxOnWall"]
              /\ s.items["box"].state = 1 => s.flags["BoxTacked"]
      [] s.task = "KatoriStand" ->
              s.items["katori"].is_placed => s.flags["KatoriInverted"]
      [] s.task = "HangerWire" ->
              (\/ s.ring_is_attached
               \/ \E id \in DOMAIN s.items : s.items[id].item_type = "wire")
                 => s.flags["HangerTransformed"]
      [] s.task = "BridgeSupport" ->
              /\ s.items["book"].is_placed => s.flags["BookPlaced"]
              /\ s.items["ruler"].is_placed => s.flags["BridgePlaced"]
              /\ s.car_on_bridge => s.flags["BridgePlaced"]

\* C29: in every reachable state a later milestone implies the earlier ones
\* of its task (BoxTacked => BoxOnWall, ObjectStable => KatoriInverted,
\* RingRetrieved => HangerTransformed, BridgePlaced => BookPlaced,
\* CarCrossed => BridgePlaced), and outcome Solved implies that every
\* milestone flag of the task is true.  The state that the preconditions of
\* the later rules read is covered by the flags as well.
C29_MilestoneOrder ==
    LET m == Milestones(run.task)
    IN /\ \A i, j \in 1..Len(m) : (i < j /\ run.flags[m[j]]) => run.flags[m[i]]
       /\ run.outcome = "Solved" => \A f \in TaskFlags(run.task) : run.flags[f]
       /\ PreconditionsFlagged(run)

\* A solved Katori-Stand run: both of its milestones are set.
C29_Witness ==
    /\ run.task = "KatoriStand"
    /\ run.outcome = "Solved"
    /\ run.flags["ObjectStable"]
    /\ run.flags["KatoriInverted"]
    /\ run.pc = "returned"


(***************************************************************************)
(* C30                                                                     *)
(***************************************************************************)
\* The item_type that the branch writing the line tests for.
SourceKind(entry) ==
    CASE entry.arg = "Box on Wall" -> "box"
      [] entry.arg = "Tack Box" -> "tacks"
      [] entry.arg = "Candle on Box" -> "candle"
      [] entry.arg = "Katori on Table" -> "katori"
      [] entry.arg = "Object on Katori" -> "object"
      [] entry.arg = "Hanger to Wire" -> "hanger"
      [] entry.arg \in {"Wire to Ring", "Ring with Wire", "Wire"} -> "wire"
      [] entry.arg = "Book in Gap" -> "book"
      [] entry.arg = "Ruler as Bridge" -> "ruler"
      [] entry.arg \in {"Car on Bridge Start", "Car Across Bridge"} -> "car"
      [] OTHER -> None

\* C30: in every prefix of a task's action log there are at most as many
\* DRAG_END lines as DRAG_START lines, and every effect line (PLACE, ACTION,
\* TRANSFORM, ATTACH, RETRIEVE, MOVE) comes right after the DRAG_END line of
\* its drop, which names the kind the dragged item had before the effect.
C30_LogWellFormed ==
    LET q == run.action_log
    IN /\ \A n \in 0..Len(q) :
              Count(SubSeq(q, 1, n), "DRAG_END") <= Count(SubSeq(q, 1, n), "DRAG_START")
       /\ \A i \in 1..Len(q) :
              q[i].event \in EffectEvents
                 => /\ i > 1
                    /\ q[i - 1] = Entry("DRAG_END", SourceKind(q[i]))

\* The hanger was dropped in the workspace and became the wire: the DRAG_END
\* line names the hanger, the TRANSFORM line follows it, and the wire has
\* been grabbed and dropped since.
C30_Witness ==
    LET q == run.action_log
    IN /\ run.task = "HangerWire"
       /\ Len(q) >= 5
       /\ q[2] = Entry("DRAG_END", "hanger")
       /\ q[3] = Entry("TRANSFORM", "Hanger to Wire")
       /\ run.items["hanger"].item_type = "wire"
       /\ q[4] = Entry("DRAG_START", "wire")
       /\ q[5] = Entry("DRAG_END", "wire")


====
